---- MODULE Spec2Model ----
(***************************************************************************)
(* Rate-limit decision engine of iyanubruce/rate-limiter: the three        *)
(* store-side limiter scripts (token bucket, sliding window, leaky         *)
(* bucket), the wrappers of RedisClient that call them, and the script     *)
(* runner evalWithFallback with the store's script cache.                   *)
(*                                                                         *)
(* Numbers.  The scripts compute on Lua numbers.  tokens and water are     *)
(* kept here as exact rationals: an integer numerator over the fixed       *)
(* denominator Den, which is a multiple of 1000 * windowSeconds for every  *)
(* window of the model, so that every refill and every leak is an integer  *)
(* numerator.  Times are integer milliseconds.                              *)
(***************************************************************************)
EXTENDS Integers, Sequences, FiniteSets, TLC

\* ---------------------------------------------------------------- bounds
MaxLimit == 2
MaxWindow == 2
MaxClock == 2500
StepMs == 250
MaxCalls == 4
MaxLagMs == 500
MaxRunnerCalls == 3
MaxOpsCalls == 3
MaxConfigCalls == 3
MaxFixedCalls == 3
MaxErrorCalls == 3
MaxResetLimit == 3
MaxResetCalls == 3
MaxPreloadOps == 3
MaxFrameCalls == 2
MaxScenarioCalls == 4
MaxTtlCalls == 3
MaxWindowCalls == 4
MaxBackoffSteps == 60
MaxScanCalls == 1
MaxScanSteps == 3

\* ------------------------------------------------------ program constants
SecondMs == 1000

Procs == {"r1", "r2"}
Keys == {"k1"}
Limits == 1..MaxLimit
Windows == 1..MaxWindow
Strategies == {"token_bucket", "sliding_window", "leaky_bucket"}
ScriptNames == {"rateLimit", "tokenBucket", "slidingWindow", "leakyBucket"}

RECURSIVE Factorial(_)
Factorial(n) == IF n <= 1 THEN 1 ELSE n * Factorial(n - 1)

\* Denominator of the stored reals (tokens, water).
Den == SecondMs * Factorial(MaxWindow)

None == <<>>
Some(v) == <<v>>

Min(a, b) == IF a <= b THEN a ELSE b
Max(a, b) == IF a >= b THEN a ELSE b

\* math.floor(n / d) for d > 0
Floor(n, d) == n \div d
\* math.ceil(n / d) for d > 0
Ceil(n, d) == -((-n) \div d)
\* A Lua number n / d returned to the client: the store truncates it to an integer.
ToInteger(n, d) == IF n >= 0 THEN n \div d ELSE -((-n) \div d)

VARIABLES
  cfg,          \* the arguments every caller passes for the key: strategy, limit, windowSeconds
  clock,        \* wall clock in ms: Date.now() of the callers and the store's time
  store,        \* the shared store: key -> record
  scriptCache,  \* the store's script cache: the digests it knows
  scriptShas,   \* RedisClient.scriptShas: script name -> digest
  proc,         \* per caller: where its call stands and what it carries
  hist,         \* the calls that have returned to their caller, in order of return
  callsLeft,    \* number of operations the callers still start
  loader        \* loadScriptShas: the runs of the preload loop started so far

vars == <<cfg, clock, store, scriptCache, scriptShas, proc, hist, callsLeft, loader>>

\* ------------------------------------------------------------ the store
Absent ==
  [kind |-> "none", tokens |-> None, last_refill |-> None, water |-> None,
   last_leak |-> None, zset |-> {}, count |-> None, expireAt |-> None]

\* A key whose TTL has run out is gone.
Expired(rec, t) == rec.expireAt # None /\ rec.expireAt[1] <= t

PurgeRec(rec, t) == IF Expired(rec, t) THEN Absent ELSE rec

Purge(st, t) == [k \in DOMAIN st |-> IF Expired(st[k], t) THEN Absent ELSE st[k]]

\* DEL key
DelNothing(rec) == rec
Del(rec) == Absent

\* EXPIRE key seconds, at store time t.
Expire(rec, seconds, t) ==
  IF rec.kind = "none" THEN rec
  ELSE IF seconds <= 0 THEN Absent
  ELSE [rec EXCEPT !.expireAt = Some(t + seconds * SecondMs)]

\* HMSET key f1 v1 f2 v2 on a hash or an absent key.
HmsetTokens(rec, tokens, last_refill) ==
  [rec EXCEPT !.kind = "hash", !.tokens = Some(tokens), !.last_refill = Some(last_refill)]

HmsetWater(rec, water, last_leak) ==
  [rec EXCEPT !.kind = "hash", !.water = Some(water), !.last_leak = Some(last_leak)]

\* ------------------------------------------------------- token-bucket.lua
\* tokens_to_add = math.floor(time_passed / 1000) * (limit / window), numerator over Den
\* A refill in proportion to the milliseconds passed.
TokensToAddFractional(time_passed, limit, window) ==
  (time_passed * limit * (Den \div window)) \div SecondMs

TokensToAdd(time_passed, limit, window) ==
  Floor(time_passed, SecondMs) * limit * (Den \div window)

\* A refill that leaves last_refill alone when it adds nothing.
TokenBucketRefillKeepsClock(rec, limit, window, now) ==
  IF rec.tokens = None
    THEN [tokens |-> limit * Den, last_refill |-> now, added |-> 0]
    ELSE LET time_passed == now - rec.last_refill[1]
             tokens_to_add == TokensToAdd(time_passed, limit, window)
             tokens == Min(limit * Den, rec.tokens[1] + tokens_to_add)
         IN [tokens |-> tokens,
             last_refill |-> IF tokens_to_add = 0 THEN rec.last_refill[1] ELSE now,
             added |-> tokens - rec.tokens[1]]

TokenBucketRefill(rec, limit, window, now) ==
  IF rec.tokens = None
    THEN [tokens |-> limit * Den, last_refill |-> now, added |-> 0]
    ELSE LET time_passed == now - rec.last_refill[1]
             tokens_to_add == TokensToAdd(time_passed, limit, window)
             tokens == Min(limit * Den, rec.tokens[1] + tokens_to_add)
         IN [tokens |-> tokens, last_refill |-> now, added |-> tokens - rec.tokens[1]]

TokenBucketAllowedAtZero(tokens) == tokens >= 0
TokenBucketAllowed(tokens) == tokens >= Den

TokenBucketScript(rec, limit, window, now, t) ==
  LET r == TokenBucketRefill(rec, limit, window, now)
      allowed == TokenBucketAllowed(r.tokens)
      tokens == IF allowed THEN r.tokens - Den ELSE r.tokens
      written == HmsetTokens(rec, tokens, r.last_refill)
  IN [rec |-> Expire(written, window * 2, t),
      reply |-> <<IF allowed THEN 1 ELSE 0, Floor(tokens, Den),
                  r.last_refill + window * SecondMs>>,
      added |-> r.added,
      error |-> FALSE]

\* ----------------------------------------------------- sliding-window.lua
\* An eviction that keeps the member whose score is the upper end of the range.
ZRemRangeBelow(zset, lo, hi) == {m \in zset : ~(lo <= m /\ m < hi)}

\* ZREMRANGEBYSCORE key 0 window_start
ZRemRangeByScore(zset, lo, hi) == {m \in zset : ~(lo <= m /\ m <= hi)}

\* A ZADD that gives a member of its own to every call.
ZAddOwnMember(zset, score) ==
  IF score \in zset THEN zset \cup {score + 1} ELSE zset \cup {score}

\* ZADD key now now: the member is the score, so adding it twice adds it once.
ZAdd(zset, score) == zset \cup {score}

\* An admission test that lets one call too many in.
SlidingWindowAllowedAtLimit(current, limit) == current <= limit

\* if current < limit then
SlidingWindowAllowed(current, limit) == current < limit

SlidingWindowScript(rec, limit, window_start, now, window_ms, t) ==
  LET evicted == ZRemRangeByScore(rec.zset, 0, window_start)
      current == Cardinality(evicted)
      allowed == SlidingWindowAllowed(current, limit)
      zset == IF allowed THEN ZAdd(evicted, now) ELSE evicted
      current2 == IF allowed THEN current + 1 ELSE current
      written == IF zset = {} THEN Absent
                 ELSE [rec EXCEPT !.kind = "zset", !.zset = zset]
  IN [rec |-> Expire(written, Ceil(window_ms, SecondMs), t),
      reply |-> <<IF allowed THEN 1 ELSE 0, Max(0, limit - current2), now + window_ms>>,
      added |-> 0,
      error |-> FALSE]

RECURSIVE Pow2(_)
Pow2(e) == IF e <= 0 THEN 1 ELSE 2 * Pow2(e - 1)

\* ------------------------------------------------- IEEE 754 double division
\* limit / windowSeconds (JavaScript) and capacity / leak_rate (Lua) divide
\* doubles: the quotient is rounded to 53 significant bits, to nearest, ties
\* to even.  A 53-bit significand is kept as two halves, hi * 2^27 + lo.
Half == 134217728
Bigs == [hi : Nat, lo : Nat]

Big(n) == [hi |-> 0, lo |-> n]
BigTwice(x) == [hi |-> 2 * x.hi + (2 * x.lo) \div Half, lo |-> (2 * x.lo) % Half]
BigGeq(x, y) == x.hi > y.hi \/ (x.hi = y.hi /\ x.lo >= y.lo)
BigMinus(x, y) ==
  IF x.lo >= y.lo THEN [hi |-> x.hi - y.hi, lo |-> x.lo - y.lo]
  ELSE [hi |-> x.hi - y.hi - 1, lo |-> x.lo + Half - y.lo]
BigNext(x) == IF x.lo + 1 = Half THEN [hi |-> x.hi + 1, lo |-> 0] ELSE [hi |-> x.hi, lo |-> x.lo + 1]

\* Scale n and d by powers of two until d <= n < 2d; e counts the scaling.
Normalised ==
  LET scale[s \in [n : Bigs, d : Bigs, e : Int]] ==
        IF ~BigGeq(s.n, s.d) THEN scale[[s EXCEPT !.n = BigTwice(s.n), !.e = s.e - 1]]
        ELSE IF BigGeq(s.n, BigTwice(s.d))
          THEN scale[[s EXCEPT !.d = BigTwice(s.d), !.e = s.e + 1]]
        ELSE s
  IN scale

\* k more quotient bits of r / d by long division, appended to q.
QuotientBits ==
  LET bits[s \in [r : Bigs, d : Bigs, q : Bigs, k : Nat]] ==
        IF s.k = 0 THEN s
        ELSE LET r2 == BigTwice(s.r)
                 q2 == BigTwice(s.q)
             IN IF BigGeq(r2, s.d)
                  THEN bits[[r |-> BigMinus(r2, s.d), d |-> s.d, q |-> BigNext(q2),
                             k |-> s.k - 1]]
                  ELSE bits[[r |-> r2, d |-> s.d, q |-> q2, k |-> s.k - 1]]
  IN bits

\* Round to nearest, ties to even: b holds the 53 quotient bits q and the
\* remainder r of the long division by d.
Rounded(b, d) ==
  LET r2 == BigTwice(b.r)
  IN IF BigGeq(r2, d) /\ (BigMinus(r2, d) # Big(0) \/ b.q.lo % 2 = 1)
       THEN BigNext(b.q)
       ELSE b.q

\* A significand that rounding carried to 2^53 is 2^52 one exponent higher.
Carried(q, e) ==
  IF q = [hi |-> Half \div 2, lo |-> 0]
    THEN [man |-> [hi |-> Half \div 4, lo |-> 0], exp |-> e + 1]
    ELSE [man |-> q, exp |-> e]

\* The rounded 53-bit significand of s.n / s.d, where s.d <= s.n < 2 * s.d.
Significand(s) ==
  Rounded(QuotientBits[[r |-> BigMinus(s.n, s.d), d |-> s.d, q |-> Big(1), k |-> 52]], s.d)

\* The double nearest to (x.n / x.d) * 2^x.e: a significand man in
\* 2^52 .. 2^53 - 1 and an exponent exp, the value being man * 2^exp.
DoubleOfScaled(s, e) == Carried(Significand(s), s.e + e - 52)

DoubleQuotient ==
  [x \in [n : Bigs, d : Bigs, e : Int] |->
     DoubleOfScaled(Normalised[[n |-> x.n, d |-> x.d, e |-> 0]], x.e)]

\* a / b for two integers, which are doubles exactly.
DoubleOfRatio(a, b) == DoubleQuotient[[n |-> Big(a), d |-> Big(b), e |-> 0]]

\* c / x for an integer c and a double x.
DoubleDiv(c, x) == DoubleQuotient[[n |-> Big(c), d |-> x.man, e |-> -x.exp]]

\* Whether a double below 2^26 is a whole number, and the whole number it is.
IsWhole(x) ==
  /\ x.exp <= -27
  /\ x.man.lo = 0
  /\ x.man.hi % Pow2(-x.exp - 27) = 0
Whole(x) == x.man.hi \div Pow2(-x.exp - 27)

\* A number a script passes to a command reaches the command as a string: the
\* digits of a whole number, 17 significant digits of any other.  A command
\* that wants an integer takes the first and rejects the second.
IntegerArgument(x) == IF IsWhole(x) THEN Some(Whole(x)) ELSE None

\* capacity / leak_rate as the script computes it: leak_rate is the double the
\* wrapper computed from limit / windowSeconds (its decimal string reads back as
\* the same double), given here as its numerator over Den.
CapacityOverLeakRate(capacity, leak_rate) ==
  DoubleDiv(capacity, DoubleOfRatio(leak_rate, Den))

\* The EXPIRE arguments of the policies up to MaxCapacity per MaxSeconds
\* seconds, computed once.
MaxCapacity == 7
MaxSeconds == 25
ExpireArguments ==
  [c \in 1..MaxCapacity |->
     [r \in {(c * Den) \div w : w \in {s \in 1..MaxSeconds : Den % s = 0}} |->
        IntegerArgument(CapacityOverLeakRate(c, r))] @@ <<>>] @@ <<>>

\* EXPIRE key capacity / leak_rate: the seconds the command reads, None when
\* it rejects the argument.
ExpireArgument(capacity, leak_rate) == ExpireArguments[capacity][leak_rate]

\* ------------------------------------------------------- leaky-bucket.lua
\* leaked = ((now - last_leak) / 1000) * leak_rate, numerator over Den;
\* leak_rate is itself a numerator over Den.
LeakedPerMillisecond(now, last_leak, leak_rate) == (now - last_leak) * leak_rate
Leaked(now, last_leak, leak_rate) == ((now - last_leak) * leak_rate) \div SecondMs

\* An admission test that asks for room for the whole unit.
LeakyBucketAllowedWithRoom(water, capacity) == water + Den <= capacity * Den

\* if water < capacity then
LeakyBucketAllowed(water, capacity) == water < capacity * Den

LeakyBucketScript(rec, capacity, leak_rate, now, t) ==
  LET water0 == IF rec.water = None THEN 0 ELSE rec.water[1]
      last_leak == IF rec.last_leak = None THEN now ELSE rec.last_leak[1]
      water1 == Max(0, water0 - Leaked(now, last_leak, leak_rate))
      allowed == LeakyBucketAllowed(water1, capacity)
      water == IF allowed THEN water1 + Den ELSE water1
      written == HmsetWater(rec, water, now)
      seconds == ExpireArgument(capacity, leak_rate)
  IN [rec |-> IF seconds = None THEN written ELSE Expire(written, seconds[1], t),
      reply |-> <<IF allowed THEN 1 ELSE 0, Floor(capacity * Den - water, Den),
                  now + ToInteger(water * SecondMs, leak_rate)>>,
      added |-> 0,
      error |-> seconds = None]

\* ---------------------------------------------------------- rate-limit.lua
\* INCR key: the value after the increment; a missing key counts from 0.
IncrByTwo(rec) == IF rec.count = None THEN 2 ELSE rec.count[1] + 2
IncrValue(rec) == IF rec.count = None THEN 1 ELSE rec.count[1] + 1

\* An increment that writes the value anew, as SET does, and drops the TTL.
IncrementedWithoutTtl(rec) ==
  [rec EXCEPT !.kind = "string", !.count = Some(IncrValue(rec)), !.expireAt = None]

\* INCR leaves the TTL of the key as it is.
Incremented(rec) == [rec EXCEPT !.kind = "string", !.count = Some(IncrValue(rec))]

\* PEXPIRE key ms, at store time t.
PExpire(rec, ms, t) ==
  IF ms <= 0 THEN Absent ELSE [rec EXCEPT !.expireAt = Some(t + ms)]

\* PTTL key, at store time t: -1 for a key without TTL.
PTtl(rec, t) == IF rec.expireAt = None THEN -1 ELSE rec.expireAt[1] - t

\* A first branch that arms the base window on the creating call only.
ArmsBaseOnFirst(current, max, continueExceeding) == current = 1

\* A first branch that re-arms the base window on every call over max.
ArmsBaseOverMax(current, max, continueExceeding) == current = 1 \/ current > max

\* The first branch: the TTL is armed to the base window.
ArmsBase(current, max, continueExceeding) ==
  current = 1 \/ (continueExceeding /\ current > max)

\* The second branch: the TTL is armed to the extended window.
ArmsBackoff(current, max, exponentialBackoff) ==
  exponentialBackoff /\ current > max

\* MAX_SAFE_INTEGER = (2^53) - 1, in two halves.
MaxSafeInteger == [hi |-> Half \div 2 - 1, lo |-> Half - 1]

\* x * 2^e.  The product of a double and a power of two is exact; the doubling
\* stops once the product is above MAX_SAFE_INTEGER, where math.min drops it.
RECURSIVE TimesPow2(_, _)
TimesPow2(x, e) ==
  IF e <= 0 \/ ~BigGeq(MaxSafeInteger, x) THEN x ELSE TimesPow2(BigTwice(x), e - 1)

\* math.min(timeWindow * (2 ^ backoffExponent), MAX_SAFE_INTEGER)
BackoffMs(timeWindow, current, max) ==
  LET product == TimesPow2([hi |-> timeWindow \div Half, lo |-> timeWindow % Half],
                           current - max - 1)
  IN IF BigGeq(MaxSafeInteger, product) THEN product ELSE MaxSafeInteger

\* A backoff whose exponent is the number of calls over max.
BackoffWindowFromTwice(timeWindow, current, max) == timeWindow * Pow2(current - max)

\* The backoff window as the integer PEXPIRE and the reply carry.
BackoffWindow(timeWindow, current, max) ==
  BackoffMs(timeWindow, current, max).hi * Half + BackoffMs(timeWindow, current, max).lo

RateLimitScript(rec, timeWindow, max, continueExceeding, exponentialBackoff, t) ==
  LET current == IncrValue(rec)
      counted == Incremented(rec)
  IN IF ArmsBase(current, max, continueExceeding)
       THEN [rec |-> PExpire(counted, timeWindow, t),
             reply |-> <<current, timeWindow>>, added |-> 0,
             error |-> FALSE]
     ELSE IF ArmsBackoff(current, max, exponentialBackoff)
       THEN [rec |-> PExpire(counted, BackoffWindow(timeWindow, current, max), t),
             reply |-> <<current, BackoffWindow(timeWindow, current, max)>>, added |-> 0,
             error |-> FALSE]
     ELSE [rec |-> counted, reply |-> <<current, PTtl(counted, t)>>, added |-> 0,
             error |-> FALSE]

\* ------------------------------------------------------ RedisClient wrappers
\* The script each strategy runs (checkRateLimit's switch).
ScriptOf(strategy) ==
  CASE strategy = "token_bucket" -> "tokenBucket"
    [] strategy = "sliding_window" -> "slidingWindow"
    [] strategy = "leaky_bucket" -> "leakyBucket"

\* checkRateLimit's strategy parameter: an omitted argument takes the default.
Undefined == "undefined"
DefaultsToSlidingWindow(strategy) ==
  IF strategy = Undefined THEN "sliding_window" ELSE strategy
StrategyOrDefault(strategy) ==
  IF strategy = Undefined THEN "token_bucket" ELSE strategy

\* leakRate = limit / windowSeconds, numerator over Den
LeakRate(limit, windowSeconds) == (limit * Den) \div windowSeconds

WindowMsAgo(windowSeconds) == -(windowSeconds * SecondMs)
WindowMs(windowSeconds) == windowSeconds * SecondMs

\* The store runs the named script on the record at the key, at store time t,
\* with the arguments the wrapper built from (limit, windowSeconds, now).
RunScript(name, rec, limit, windowSeconds, now, t) ==
  CASE name = "tokenBucket" -> TokenBucketScript(rec, limit, windowSeconds, now, t)
    [] name = "slidingWindow" ->
         SlidingWindowScript(rec, limit, now - WindowMs(windowSeconds), now,
                             WindowMs(windowSeconds), t)
    [] name = "leakyBucket" ->
         LeakyBucketScript(rec, limit, LeakRate(limit, windowSeconds), now, t)
    [] name = "rateLimit" ->
         RateLimitScript(rec, cfg.timeWindow, limit, cfg.continueExceeding,
                         cfg.exponentialBackoff, t)

\* The envelope the wrapper decodes from the reply tuple.
Envelope(reply) == [allowed |-> reply[1] = 1, remaining |-> reply[2], resetAt |-> reply[3]]

\* The pair fixedWindowRateLimit decodes from the reply tuple.
FixedEnvelope(reply) == [current |-> reply[1], timeWindow |-> reply[2]]

EnvelopeFor(name, reply) ==
  IF name = "rateLimit" THEN FixedEnvelope(reply) ELSE Envelope(reply)

\* A digest that does not depend on the source it is computed from.
Sha1OfAnyScript(name) == <<"sha1", "rateLimit">>

\* The digest the store assigns to a script: a function of its source.
Sha1(name) == <<"sha1", name>>

\* The command evalWithFallback sends at each of its positions.
CommandAt(pc) ==
  CASE pc = "evalsha" -> "EVALSHA"
    [] pc = "load" -> "SCRIPT LOAD"
    [] pc = "retry" -> "EVALSHA"
    [] pc = "eval" -> "EVAL"

IdleProc ==
  [pc |-> "idle", script |-> "none", key |-> "none", now |-> 0, sha |-> None,
   execs |-> 0, trips |-> 0, noscript |-> FALSE, cmds |-> <<>>]

InFlight(p) == proc[p].pc # "idle"

NoEnvelope == Envelope(<<0, 0, 0>>)

\* The record of a call that has returned to its caller; cmds lists the
\* commands the call sent, each with the store's answer.
Returned(c, outcome, env, added, execs, trips) ==
  [script |-> c.script, key |-> c.key, now |-> c.now, outcome |-> outcome, env |-> env,
   added |-> added, execs |-> execs, trips |-> trips, noscript |-> c.noscript,
   cached |-> c.sha # None, cmds |-> Append(c.cmds, <<CommandAt(c.pc), outcome>>)]

\* ------------------------------------------------------------- actions
\* The clock advances while no call is in flight.
Tick(d) ==
  /\ \A p \in Procs : ~InFlight(p)
  /\ clock + d <= MaxClock
  /\ clock' = clock + d
  /\ store' = Purge(store, clock + d)
  /\ UNCHANGED <<cfg, scriptCache, scriptShas, proc, hist, callsLeft, loader>>

\* The clock advances while a call is in flight: the store sees that call's
\* now late, and after the now of calls that overtake it.
Lag(d) ==
  /\ \E p \in Procs : InFlight(p)
  /\ \A p \in Procs : InFlight(p) => clock + d - proc[p].now <= MaxLagMs
  /\ clock + d <= MaxClock
  /\ clock' = clock + d
  /\ store' = Purge(store, clock + d)
  /\ UNCHANGED <<cfg, scriptCache, scriptShas, proc, hist, callsLeft, loader>>

\* checkRateLimit(key, limit, windowSeconds, strategy): the strategy's wrapper
\* reads the clock, and evalWithFallback reads the digest table and sends
\* EVALSHA (digest cached) or EVAL (no digest).
CallStart(p, k) ==
  /\ proc[p].pc = "idle"
  /\ callsLeft > 0
  /\ StrategyOrDefault(cfg.strategy) \in Strategies
  /\ callsLeft' = callsLeft - 1
  /\ LET name == ScriptOf(StrategyOrDefault(cfg.strategy))
         sha == scriptShas[name]
     IN proc' = [proc EXCEPT ![p] =
                   [IdleProc EXCEPT !.pc = IF sha # None THEN "evalsha" ELSE "eval",
                                    !.script = name, !.key = k, !.now = clock,
                                    !.sha = sha]]
  /\ UNCHANGED <<cfg, clock, store, scriptCache, scriptShas, hist, loader>>

\* The store's execution of p's script.
Ran(p) ==
  RunScript(proc[p].script, store[proc[p].key], cfg.limit, cfg.windowSeconds,
            proc[p].now, clock)

\* The script runs on the store and its reply reaches the wrapper, which
\* returns the decoded envelope.
ExecuteAndReturn(p) ==
  /\ ~Ran(p).error
  /\ store' = [store EXCEPT ![proc[p].key] = Ran(p).rec]
  /\ hist' = Append(hist, Returned(proc[p], "reply",
                                   EnvelopeFor(proc[p].script, Ran(p).reply), Ran(p).added,
                                   proc[p].execs + 1, proc[p].trips + 1))
  /\ proc' = [proc EXCEPT ![p] = IdleProc]

\* EVALSHA with a digest the store knows.
EvalshaOk(p) ==
  /\ proc[p].pc = "evalsha"
  /\ proc[p].sha[1] \in scriptCache
  /\ ExecuteAndReturn(p)
  /\ UNCHANGED <<cfg, clock, scriptCache, scriptShas, callsLeft, loader>>

Configs ==
  [strategy : Strategies, limit : Limits, windowSeconds : Windows]

\* The state once the connection is ready and the preload has stored the four digests.
Init ==
  /\ cfg \in Configs
  /\ clock = 0
  /\ store = [k \in Keys |-> Absent]
  /\ scriptCache = {Sha1(n) : n \in ScriptNames}
  /\ scriptShas = [n \in ScriptNames |-> Some(Sha1(n))]
  /\ proc = [p \in Procs |-> IdleProc]
  /\ hist = <<>>
  /\ callsLeft = MaxCalls
  /\ loader = <<>>

Steps == {StepMs, SecondMs}

\* Decisions answered within the clock reading they carry.
Next ==
  \/ \E d \in Steps : Tick(d)
  \/ \E p \in Procs, k \in Keys : CallStart(p, k)
  \/ \E p \in Procs : EvalshaOk(p)

Spec == Init /\ [][Next]_vars

\* Decisions that may reach the store late and out of clock order.
NextSkew ==
  \/ \E d \in Steps : Tick(d)
  \/ \E d \in Steps : Lag(d)
  \/ \E p \in Procs, k \in Keys : CallStart(p, k)
  \/ \E p \in Procs : EvalshaOk(p)

SpecSkew == Init /\ [][NextSkew]_vars

\* ------------------------------------------------------ the script runner
FailOpen(p, err, execs) ==
  /\ hist' = Append(hist, Returned(proc[p], "reply", Envelope(<<1, 0, 0>>), 0, execs,
                                   proc[p].trips + 1))
  /\ proc' = [proc EXCEPT ![p] = IdleProc]

\* The call fails: the error reaches the caller of the wrapper.
Throw(p, err, execs) ==
  /\ hist' = Append(hist, Returned(proc[p], err, NoEnvelope, 0, execs, proc[p].trips + 1))
  /\ proc' = [proc EXCEPT ![p] = IdleProc]

\* error.message?.includes("NOSCRIPT")
IsNoScriptAnyError(err) == TRUE
IsNoScript(err) == err = "NOSCRIPT"

\* What the catch block sends after a NOSCRIPT reply: SCRIPT LOAD (not EVAL).
RecoverByEval == "eval"
RecoveryCommand == "load"

\* The first EVALSHA throws.  The store answers NOSCRIPT exactly when it does
\* not know the digest, and then it has not run the script; any other error
\* (connection lost, timeout) may come before or after the store ran it.
EvalshaThrows(p) ==
  /\ proc[p].pc = "evalsha"
  /\ \E err \in {"NOSCRIPT", "StoreError"}, ran \in BOOLEAN :
       /\ err = "NOSCRIPT" => proc[p].sha[1] \notin scriptCache /\ ~ran
       /\ ran => proc[p].sha[1] \in scriptCache
       /\ store' = IF ran THEN [store EXCEPT ![proc[p].key] = Ran(p).rec] ELSE store
       /\ IF IsNoScript(err)
            THEN /\ proc' = [proc EXCEPT ![p].pc = RecoveryCommand,
                                         ![p].noscript = TRUE,
                                         ![p].cmds = Append(@, <<"EVALSHA", err>>),
                                         ![p].trips = @ + 1,
                                         ![p].execs = @ + (IF ran THEN 1 ELSE 0)]
                 /\ hist' = hist
            ELSE Throw(p, err, proc[p].execs + (IF ran THEN 1 ELSE 0))
  /\ UNCHANGED <<cfg, clock, scriptCache, scriptShas, callsLeft, loader>>

\* SCRIPT LOAD of the registry source: the store caches the script and returns
\* its digest, which replaces the table's entry.
ScriptLoadOk(p) ==
  /\ proc[p].pc = "load"
  /\ scriptCache' = scriptCache \cup {Sha1(proc[p].script)}
  /\ scriptShas' = [scriptShas EXCEPT ![proc[p].script] = Some(Sha1(proc[p].script))]
  /\ proc' = [proc EXCEPT ![p].pc = "retry", ![p].sha = Some(Sha1(proc[p].script)),
                          ![p].trips = @ + 1,
                          ![p].cmds = Append(@, <<"SCRIPT LOAD", "digest">>)]
  /\ UNCHANGED <<cfg, clock, store, hist, callsLeft, loader>>

\* SCRIPT LOAD fails: the error leaves the catch block.
ScriptLoadThrows(p) ==
  /\ proc[p].pc = "load"
  /\ Throw(p, "StoreError", proc[p].execs)
  /\ UNCHANGED <<cfg, clock, store, scriptCache, scriptShas, callsLeft, loader>>

\* The retried EVALSHA, with the digest SCRIPT LOAD returned.
RetryOk(p) ==
  /\ proc[p].pc = "retry"
  /\ proc[p].sha[1] \in scriptCache
  /\ ExecuteAndReturn(p)
  /\ UNCHANGED <<cfg, clock, scriptCache, scriptShas, callsLeft, loader>>

\* The retried EVALSHA throws inside the catch block: nothing catches it.
RetryThrows(p) ==
  /\ proc[p].pc = "retry"
  /\ \E err \in {"NOSCRIPT", "StoreError"}, ran \in BOOLEAN :
       /\ err = "NOSCRIPT" => proc[p].sha[1] \notin scriptCache /\ ~ran
       /\ ran => proc[p].sha[1] \in scriptCache
       /\ store' = IF ran THEN [store EXCEPT ![proc[p].key] = Ran(p).rec] ELSE store
       /\ Throw(p, err, proc[p].execs + (IF ran THEN 1 ELSE 0))
  /\ UNCHANGED <<cfg, clock, scriptCache, scriptShas, callsLeft, loader>>

\* No digest cached: EVAL of the full source; the store caches the script as
\* a side effect.  The digest table is not written on this path.
EvalOk(p) ==
  /\ proc[p].pc = "eval"
  /\ scriptCache' = scriptCache \cup {Sha1(proc[p].script)}
  /\ ExecuteAndReturn(p)
  /\ UNCHANGED <<cfg, clock, scriptShas, callsLeft, loader>>

EvalThrows(p) ==
  /\ proc[p].pc = "eval"
  /\ \E ran \in BOOLEAN :
       /\ store' = IF ran THEN [store EXCEPT ![proc[p].key] = Ran(p).rec] ELSE store
       /\ scriptCache' = IF ran THEN scriptCache \cup {Sha1(proc[p].script)}
                         ELSE scriptCache
       /\ Throw(p, "StoreError", proc[p].execs + (IF ran THEN 1 ELSE 0))
  /\ UNCHANGED <<cfg, clock, scriptShas, callsLeft, loader>>

\* SCRIPT FLUSH, or a restart of the store: the script cache is emptied.
Flush ==
  /\ scriptCache # {}
  /\ scriptCache' = {}
  /\ UNCHANGED <<cfg, clock, store, scriptShas, proc, hist, callsLeft, loader>>

\* Object.entries(LUA_SCRIPTS), in the order loadAllLuaScripts builds it.
ScriptOrder == <<"rateLimit", "tokenBucket", "slidingWindow", "leakyBucket">>

\* A run of loadScriptShas: the names its loop has still to visit, the names it
\* has sent SCRIPT LOAD for, and whether one of those loads failed.
NewLoader == [todo |-> ScriptOrder, tried |-> <<>>, failed |-> FALSE]

\* The connection becomes ready: the handler starts a run of loadScriptShas.
\* Nothing waits for an earlier run to finish.  Ready events draw on the same
\* budget of operations as the calls.
Ready ==
  /\ callsLeft > 0
  /\ callsLeft' = callsLeft - 1
  /\ loader' = Append(loader, NewLoader)
  /\ UNCHANGED <<cfg, clock, store, scriptCache, scriptShas, proc, hist>>

\* One turn of the loop of run i: SCRIPT LOAD succeeds and the digest is stored.
PreloadOk(i) ==
  /\ loader[i].todo # <<>>
  /\ LET name == Head(loader[i].todo)
     IN /\ scriptCache' = scriptCache \cup {Sha1(name)}
        /\ scriptShas' = [scriptShas EXCEPT ![name] = Some(Sha1(name))]
        /\ loader' = [loader EXCEPT ![i].todo = Tail(@), ![i].tried = Append(@, name)]
  /\ UNCHANGED <<cfg, clock, store, proc, hist, callsLeft>>

\* A loop that gives up at the first failed load.
PreloadFailsStops(i) ==
  /\ loader[i].todo # <<>>
  /\ loader' = [loader EXCEPT ![i].todo = <<>>,
                              ![i].tried = Append(@, Head(loader[i].todo)),
                              ![i].failed = TRUE]
  /\ UNCHANGED <<cfg, clock, store, scriptCache, scriptShas, proc, hist, callsLeft>>

\* One turn of the loop of run i: SCRIPT LOAD fails, the error is logged, the
\* loop goes on with the next name.
PreloadFails(i) ==
  /\ loader[i].todo # <<>>
  /\ loader' = [loader EXCEPT ![i].todo = Tail(@),
                              ![i].tried = Append(@, Head(loader[i].todo)),
                              ![i].failed = TRUE]
  /\ UNCHANGED <<cfg, clock, store, scriptCache, scriptShas, proc, hist, callsLeft>>

\* The process right after construction: no digest yet, no ready event yet.
PreloadConfigs ==
  {c \in Configs : c.strategy = "token_bucket" /\ c.limit = 1 /\ c.windowSeconds = 1}

InitPreload ==
  /\ cfg \in PreloadConfigs
  /\ clock = 0
  /\ store = [k \in Keys |-> Absent]
  /\ scriptCache = {}
  /\ scriptShas = [n \in ScriptNames |-> None]
  /\ proc = [p \in Procs |-> IdleProc]
  /\ hist = <<>>
  /\ callsLeft = MaxPreloadOps
  /\ loader = <<>>

NextPreload ==
  \/ Ready
  \/ \E i \in 1..Len(loader) : PreloadOk(i)
  \/ \E i \in 1..Len(loader) : PreloadFails(i)
  \/ Flush
  \/ \E p \in Procs, k \in Keys : CallStart(p, k)
  \/ \E p \in Procs : EvalshaOk(p)
  \/ \E p \in Procs : EvalshaThrows(p)
  \/ \E p \in Procs : ScriptLoadOk(p)
  \/ \E p \in Procs : ScriptLoadThrows(p)
  \/ \E p \in Procs : RetryOk(p)
  \/ \E p \in Procs : RetryThrows(p)
  \/ \E p \in Procs : EvalOk(p)
  \/ \E p \in Procs : EvalThrows(p)

SpecPreload == InitPreload /\ [][NextPreload]_vars

\* A state after construction and one preload: each SCRIPT LOAD of the preload
\* has succeeded or failed, and the store's cache has been flushed or not.
InitRunner ==
  /\ cfg \in {c \in Configs : c.windowSeconds = 1}
  /\ clock = 0
  /\ store = [k \in Keys |-> Absent]
  /\ scriptShas \in [ScriptNames -> {None} \cup {Some(Sha1(n)) : n \in ScriptNames}]
  /\ \A n \in ScriptNames :
       /\ scriptShas[n] \in {None, Some(Sha1(n))}
       /\ n # ScriptOf(cfg.strategy) => scriptShas[n] # None
  /\ scriptCache \in {{}, {Sha1(n) : n \in {m \in ScriptNames : scriptShas[m] # None}}}
  /\ proc = [p \in Procs |-> IdleProc]
  /\ hist = <<>>
  /\ callsLeft = MaxRunnerCalls
  /\ loader = <<>>

NextRunner ==
  \/ Flush
  \/ \E p \in Procs, k \in Keys : CallStart(p, k)
  \/ \E p \in Procs : EvalshaOk(p)
  \/ \E p \in Procs : EvalshaThrows(p)
  \/ \E p \in Procs : ScriptLoadOk(p)
  \/ \E p \in Procs : ScriptLoadThrows(p)
  \/ \E p \in Procs : RetryOk(p)
  \/ \E p \in Procs : RetryThrows(p)
  \/ \E p \in Procs : EvalOk(p)
  \/ \E p \in Procs : EvalThrows(p)

SpecRunner == InitRunner /\ [][NextRunner]_vars

\* ------------------------------------------------- the quota inspector
\* The record of an inspector operation that has returned to its caller; it
\* carries no clock reading.
OpReturned(op, k, outcome, env, execs, trips) ==
  [script |-> op, key |-> k, now |-> 0, outcome |-> outcome, env |-> env,
   added |-> 0, execs |-> execs, trips |-> trips, noscript |-> FALSE, cached |-> FALSE,
   cmds |-> <<>>]

\* A DEL that takes every key of the store with it.
DeleteEveryKey(k) ==
  /\ callsLeft > 0
  /\ callsLeft' = callsLeft - 1
  /\ store' = [j \in DOMAIN store |-> Absent]
  /\ hist' = Append(hist, OpReturned("delete", k, "deleted", NoEnvelope, 1, 1))
  /\ UNCHANGED <<cfg, clock, scriptCache, scriptShas, proc, loader>>

\* deleteRateLimit(key): one DEL.  It resolves, or the command fails with a
\* store error that reaches the caller, before or after the store ran it.
DeleteRateLimit(k) ==
  /\ callsLeft > 0
  /\ callsLeft' = callsLeft - 1
  /\ \E failed \in BOOLEAN, ran \in BOOLEAN :
       /\ ~failed => ran
       /\ store' = IF ran THEN [store EXCEPT ![k] = Del(store[k])] ELSE store
       /\ hist' = Append(hist, OpReturned("delete", k,
                                          IF failed THEN "StoreError" ELSE "deleted",
                                          NoEnvelope, IF ran THEN 1 ELSE 0, 1))
  /\ UNCHANGED <<cfg, clock, scriptCache, scriptShas, proc, loader>>

\* The strategy strings getQuotaStatus is called with.
QuotaStrategies == Strategies \cup {"fixed_window"}

\* ZCARD answers WRONGTYPE on a key that is not a sorted set, HGETALL on a key
\* that is not a hash; an absent key is an empty one of either type.
WrongType(rec, strategy) ==
  IF strategy = "sliding_window" THEN rec.kind \notin {"none", "zset"}
  ELSE rec.kind \notin {"none", "hash"}

\* The catch block of getQuotaStatus.
QuotaOnErrorMinusOne == [remaining |-> -1, total |-> -1]
QuotaOnError == [remaining |-> 0, total |-> 0]

\* A reader that takes the water of a leaky bucket for its tokens.
QuotaOfWater(rec, strategy) ==
  IF strategy = "sliding_window"
    THEN LET count == Cardinality(rec.zset) IN [remaining |-> count, total |-> count]
    ELSE LET tokens == IF rec.tokens # None THEN rec.tokens[1]
                       ELSE IF rec.water # None THEN rec.water[1] ELSE 0
         IN [remaining |-> Floor(tokens, Den), total |-> Floor(tokens, Den)]

\* The try block of getQuotaStatus on a record the store could read.
QuotaOf(rec, strategy) ==
  IF strategy = "sliding_window"
    THEN LET count == Cardinality(rec.zset) IN [remaining |-> count, total |-> count]
    ELSE LET tokens == IF rec.tokens = None THEN 0 ELSE rec.tokens[1]
         IN [remaining |-> Floor(tokens, Den), total |-> Floor(tokens, Den)]

\* getQuotaStatus(key, strategy): one read; every error is caught.
GetQuotaStatus(k, strategy) ==
  /\ callsLeft > 0
  /\ callsLeft' = callsLeft - 1
  /\ \E lost \in BOOLEAN :
       LET failed == lost \/ WrongType(store[k], strategy)
           result == IF failed THEN QuotaOnError ELSE QuotaOf(store[k], strategy)
       IN hist' = Append(hist, [script |-> "getQuotaStatus", key |-> k, now |-> 0,
                                outcome |-> "quota", env |-> result, execs |-> 0,
                                strategy |-> strategy, failed |-> failed,
                                rec |-> store[k]])
  /\ UNCHANGED <<cfg, clock, store, scriptCache, scriptShas, proc, loader>>

InitOps ==
  /\ cfg \in Configs
  /\ clock = 0
  /\ store = [k \in Keys |-> Absent]
  /\ scriptCache = {Sha1(n) : n \in ScriptNames}
  /\ scriptShas = [n \in ScriptNames |-> Some(Sha1(n))]
  /\ proc = [p \in Procs |-> IdleProc]
  /\ hist = <<>>
  /\ callsLeft = MaxOpsCalls
  /\ loader = <<>>

\* Decisions mixed with deletions of the key.
NextDelete ==
  \/ \E d \in Steps : Tick(d)
  \/ \E p \in Procs, k \in Keys : CallStart(p, k)
  \/ \E p \in Procs : EvalshaOk(p)
  \/ \E k \in Keys : DeleteRateLimit(k)

SpecDelete == InitOps /\ [][NextDelete]_vars

\* Decisions mixed with reads of the quota, a second apart or at one instant.
NextQuota ==
  \/ Tick(SecondMs)
  \/ \E p \in Procs, k \in Keys : CallStart(p, k)
  \/ \E p \in Procs : EvalshaOk(p)
  \/ \E k \in Keys, strategy \in QuotaStrategies : GetQuotaStatus(k, strategy)

SpecQuota == InitOps /\ [][NextQuota]_vars

\* ------------------------------------------------- arguments out of range
\* Strategy strings outside the switch of checkRateLimit.
UnknownStrategies == {"fixed_window", ""}

\* checkRateLimit with a strategy the switch does not know: the default branch
\* throws before any wrapper is entered.
UnknownStrategy(k, strategy) ==
  /\ callsLeft > 0
  /\ StrategyOrDefault(strategy) \notin Strategies
  /\ callsLeft' = callsLeft - 1
  /\ hist' = Append(hist, OpReturned("checkRateLimit", k, "UnknownStrategy", NoEnvelope, 0, 0))
  /\ UNCHANGED <<cfg, clock, store, scriptCache, scriptShas, proc, loader>>

\* The arguments callers may pass: a quota of 0 and an omitted strategy
\* included.  (leaky_bucket with limit 0 makes the script call EXPIRE with
\* 0 / 0 and is left out.)
AnyConfigs ==
  {c \in [strategy : Strategies \cup {Undefined}, limit : 0..MaxLimit, windowSeconds : Windows] :
     c.strategy = "leaky_bucket" => c.limit > 0}

InitConfig ==
  /\ cfg \in AnyConfigs
  /\ clock = 0
  /\ store = [k \in Keys |-> Absent]
  /\ scriptCache = {Sha1(n) : n \in ScriptNames}
  /\ scriptShas = [n \in ScriptNames |-> Some(Sha1(n))]
  /\ proc = [p \in Procs |-> IdleProc]
  /\ hist = <<>>
  /\ callsLeft = MaxConfigCalls
  /\ loader = <<>>

NextConfig ==
  \/ \E d \in Steps : Tick(d)
  \/ \E p \in Procs, k \in Keys : CallStart(p, k)
  \/ \E p \in Procs : EvalshaOk(p)
  \/ \E k \in Keys, strategy \in UnknownStrategies : UnknownStrategy(k, strategy)

SpecConfig == InitConfig /\ [][NextConfig]_vars

\* ---------------------------------------------------------- fixed window
\* The arguments of fixedWindowRateLimit; limit holds max.
TimeWindows == {2 * StepMs, SecondMs}

FixedConfigs ==
  [strategy : {"fixed_window"}, limit : Limits, windowSeconds : {1},
   timeWindow : TimeWindows, continueExceeding : BOOLEAN, exponentialBackoff : BOOLEAN]

\* fixedWindowRateLimit(key, timeWindow, max, continueExceeding,
\* exponentialBackoff): no clock is read; now records the instant of the call.
FixedWindowStart(p, k) ==
  /\ proc[p].pc = "idle"
  /\ callsLeft > 0
  /\ cfg.strategy = "fixed_window"
  /\ callsLeft' = callsLeft - 1
  /\ LET sha == scriptShas["rateLimit"]
     IN proc' = [proc EXCEPT ![p] =
                   [IdleProc EXCEPT !.pc = IF sha # None THEN "evalsha" ELSE "eval",
                                    !.script = "rateLimit", !.key = k, !.now = clock,
                                    !.sha = sha]]
  /\ UNCHANGED <<cfg, clock, store, scriptCache, scriptShas, hist, loader>>

\* RedisClient.incr(key): INCR outside any script; the key gets no TTL.
Incr(k) ==
  /\ callsLeft > 0
  /\ callsLeft' = callsLeft - 1
  /\ store' = [store EXCEPT ![k] = Incremented(store[k])]
  /\ hist' = Append(hist, OpReturned("incr", k, "incr",
                                     [current |-> IncrValue(store[k])], 1, 1))
  /\ UNCHANGED <<cfg, clock, scriptCache, scriptShas, proc, loader>>

InitFixed ==
  /\ cfg \in FixedConfigs
  /\ clock = 0
  /\ store = [k \in Keys |-> Absent]
  /\ scriptCache = {Sha1(n) : n \in ScriptNames}
  /\ scriptShas = [n \in ScriptNames |-> Some(Sha1(n))]
  /\ proc = [p \in Procs |-> IdleProc]
  /\ hist = <<>>
  /\ callsLeft = MaxFixedCalls
  /\ loader = <<>>

NextFixed ==
  \/ \E d \in Steps : Tick(d)
  \/ \E p \in Procs, k \in Keys : FixedWindowStart(p, k)
  \/ \E p \in Procs : EvalshaOk(p)
  \/ \E k \in Keys : Incr(k)

SpecFixed == InitFixed /\ [][NextFixed]_vars

\* The script a caller with the arguments c runs.
ScriptOfConfig(c) ==
  IF c.strategy = "fixed_window" THEN "rateLimit"
  ELSE ScriptOf(StrategyOrDefault(c.strategy))

\* The four operations over a store that loses its script cache and fails
\* commands; as in InitRunner the preload has stored the caller's digest or not.
InitErrors ==
  /\ cfg \in {c \in Configs : c.windowSeconds = 1} \cup FixedConfigs
  /\ clock = 0
  /\ store = [k \in Keys |-> Absent]
  /\ scriptShas \in [ScriptNames -> {None} \cup {Some(Sha1(n)) : n \in ScriptNames}]
  /\ \A n \in ScriptNames :
       /\ scriptShas[n] \in {None, Some(Sha1(n))}
       /\ n # ScriptOfConfig(cfg) => scriptShas[n] # None
  /\ scriptCache \in {{}, {Sha1(n) : n \in {m \in ScriptNames : scriptShas[m] # None}}}
  /\ proc = [p \in Procs |-> IdleProc]
  /\ hist = <<>>
  /\ callsLeft = MaxErrorCalls
  /\ loader = <<>>

NextErrors ==
  \/ Flush
  \/ \E p \in Procs, k \in Keys : CallStart(p, k)
  \/ \E p \in Procs, k \in Keys : FixedWindowStart(p, k)
  \/ \E p \in Procs : EvalshaOk(p)
  \/ \E p \in Procs : EvalshaThrows(p)
  \/ \E p \in Procs : ScriptLoadOk(p)
  \/ \E p \in Procs : ScriptLoadThrows(p)
  \/ \E p \in Procs : RetryOk(p)
  \/ \E p \in Procs : RetryThrows(p)
  \/ \E p \in Procs : EvalOk(p)
  \/ \E p \in Procs : EvalThrows(p)

SpecErrors == InitErrors /\ [][NextErrors]_vars

\* ------------------------------------------------- callers that wait
\* A caller waits until the resetAt of the envelope returned last; nothing
\* touches the store in between.
WaitForReset ==
  /\ \A p \in Procs : ~InFlight(p)
  /\ hist # <<>>
  /\ hist[Len(hist)].outcome = "reply"
  /\ LET resetAt == hist[Len(hist)].env.resetAt
     IN /\ clock < resetAt /\ resetAt <= MaxClock
        /\ clock' = resetAt
        /\ store' = Purge(store, resetAt)
  /\ UNCHANGED <<cfg, scriptCache, scriptShas, proc, hist, callsLeft, loader>>

InitReset ==
  /\ cfg \in [strategy : Strategies, limit : 1..MaxResetLimit, windowSeconds : Windows]
  /\ clock = 0
  /\ store = [k \in Keys |-> Absent]
  /\ scriptCache = {Sha1(n) : n \in ScriptNames}
  /\ scriptShas = [n \in ScriptNames |-> Some(Sha1(n))]
  /\ proc = [p \in Procs |-> IdleProc]
  /\ hist = <<>>
  /\ callsLeft = MaxResetCalls
  /\ loader = <<>>

NextReset ==
  \/ \E d \in Steps : Tick(d)
  \/ WaitForReset
  \/ \E p \in Procs, k \in Keys : CallStart(p, k)
  \/ \E p \in Procs : EvalshaOk(p)

SpecReset == InitReset /\ [][NextReset]_vars

\* ------------------------------------------------- two keys in one store
FrameKeys == Keys \cup {"k2"}

\* The glob patterns getKeys is called with.
Patterns == {"*", "k1"}

\* MATCH pattern
Matches(pattern, k) == pattern = "*" \/ pattern = k

\* getKeys(pattern): SCAN with MATCH until the cursor is back at 0; only reads.
\* A failed SCAN reaches the caller.
GetKeys(pattern) ==
  /\ callsLeft > 0
  /\ callsLeft' = callsLeft - 1
  /\ \E failed \in BOOLEAN :
       LET keys == {k \in DOMAIN store : store[k] # Absent /\ Matches(pattern, k)}
       IN hist' = Append(hist, OpReturned("getKeys", pattern,
                                          IF failed THEN "StoreError" ELSE "keys",
                                          [keys |-> IF failed THEN {} ELSE keys], 0, 1))
  /\ UNCHANGED <<cfg, clock, store, scriptCache, scriptShas, proc, loader>>

FrameConfigs ==
  {c \in Configs : c.windowSeconds = 1} \cup {c \in FixedConfigs : c.timeWindow = SecondMs}

\* Two keys; the second may hold the record a decision at time 0 has left.
InitFrame ==
  /\ cfg \in FrameConfigs
  /\ clock = 0
  /\ store \in {[k \in FrameKeys |-> Absent],
                [k \in FrameKeys |->
                   IF k = "k2"
                     THEN RunScript(ScriptOfConfig(cfg), Absent, cfg.limit,
                                    cfg.windowSeconds, 0, 0).rec
                     ELSE Absent]}
  /\ scriptCache = {Sha1(n) : n \in ScriptNames}
  /\ scriptShas = [n \in ScriptNames |-> Some(Sha1(n))]
  /\ proc = [p \in Procs |-> IdleProc]
  /\ hist = <<>>
  /\ callsLeft = MaxFrameCalls
  /\ loader = <<>>

NextFrame ==
  \/ Tick(SecondMs)
  \/ \E p \in Procs, k \in FrameKeys : CallStart(p, k)
  \/ \E p \in Procs, k \in FrameKeys : FixedWindowStart(p, k)
  \/ \E p \in Procs : EvalshaOk(p)
  \/ \E k \in FrameKeys : DeleteRateLimit(k)
  \/ \E k \in FrameKeys, strategy \in QuotaStrategies : GetQuotaStatus(k, strategy)
  \/ \E pattern \in Patterns : GetKeys(pattern)

SpecFrame == InitFrame /\ [][NextFrame]_vars

\* ------------------------------------------------- calls at chosen instants
\* Callers whose clock readings (Date.now()) fall on chosen instants only: the
\* two worked examples, and every small policy around the whole-second and
\* whole-window boundaries.
TokenBucketExample ==
  [strategy |-> "token_bucket", limit |-> 10, windowSeconds |-> 10,
   instants |-> {0, 500, 1500}, calls |-> 12]

SlidingWindowExample ==
  [strategy |-> "sliding_window", limit |-> 3, windowSeconds |-> 1,
   instants |-> {0, 200, 400, 500, 1100}, calls |-> 5]

LeakyBucketExample ==
  [strategy |-> "leaky_bucket", limit |-> 5, windowSeconds |-> 5,
   instants |-> {0, 1000}, calls |-> 7]

\* A leak rate of 3 per second: a unit of water takes a third of a second.
LeakyBucketThirds ==
  [strategy |-> "leaky_bucket", limit |-> 3, windowSeconds |-> 1,
   instants |-> {0, 100, 500}, calls |-> 3]

BoundaryInstants == {0, 500, SecondMs - 1, SecondMs, 2 * SecondMs - 1, 2 * SecondMs}

Scenarios ==
  {TokenBucketExample, SlidingWindowExample, LeakyBucketExample, LeakyBucketThirds} \cup
  [strategy : Strategies, limit : Limits, windowSeconds : Windows,
   instants : {BoundaryInstants}, calls : {MaxScenarioCalls}]

\* Time passes until the next clock reading a caller takes.
AdvanceTo(t) ==
  /\ \A p \in Procs : ~InFlight(p)
  /\ t \in cfg.instants
  /\ t > clock
  /\ clock' = t
  /\ store' = Purge(store, t)
  /\ UNCHANGED <<cfg, scriptCache, scriptShas, proc, hist, callsLeft, loader>>

InitScenario ==
  /\ cfg \in Scenarios
  /\ clock = 0
  /\ store = [k \in Keys |-> Absent]
  /\ scriptCache = {Sha1(n) : n \in ScriptNames}
  /\ scriptShas = [n \in ScriptNames |-> Some(Sha1(n))]
  /\ proc = [p \in Procs |-> IdleProc]
  /\ hist = <<>>
  /\ callsLeft = cfg.calls
  /\ loader = <<>>

NextScenario ==
  \/ \E t \in UNION {c.instants : c \in Scenarios} : AdvanceTo(t)
  \/ \E p \in Procs, k \in Keys : CallStart(p, k)
  \/ \E p \in Procs : EvalshaOk(p)

SpecScenario == InitScenario /\ [][NextScenario]_vars

\* ------------------------------------------------------------ properties
Replied(i) == hist[i].outcome = "reply"
Admitted(i) == Replied(i) /\ hist[i].env.allowed

\* The admitted calls, from the i-th call on, whose now lies in the interval
\* of one window that begins at the i-th call's now.
InWindowFrom(i) ==
  {j \in i..Len(hist) :
     /\ Admitted(j)
     /\ hist[i].now <= hist[j].now
     /\ hist[j].now < hist[i].now + WindowMs(cfg.windowSeconds)}

\* The calls that follow the i-th and carry a now of the i-th call's window.
AfterInWindow(i) ==
  {j \in (i + 1)..Len(hist) :
     /\ hist[i].now <= hist[j].now
     /\ hist[j].now < hist[i].now + WindowMs(cfg.windowSeconds)}

RECURSIVE SumAdded(_)
SumAdded(S) ==
  IF S = {} THEN 0
  ELSE LET j == CHOOSE x \in S : TRUE IN hist[j].added + SumAdded(S \ {j})

IsStrategy(s) == cfg.strategy = s

\* C1: every envelope checkRateLimit returns has remaining >= 0, under each of
\* the three strategies and any spacing of the now values.
C1_RemainingNonNegative ==
  \A i \in 1..Len(hist) : Replied(i) => hist[i].env.remaining >= 0

\* C2: after every leaky-bucket decision the stored water is within
\* [0, capacity], also after an admission made on fractional water.
C2_WaterWithinCapacity ==
  IsStrategy("leaky_bucket") =>
    \A k \in Keys : store[k].water # None =>
      /\ 0 <= store[k].water[1]
      /\ store[k].water[1] <= cfg.limit * Den

\* C3: after every token-bucket decision the stored tokens is within
\* [0, limit], also when the store sees the now values out of order.
C3_TokensWithinLimit ==
  IsStrategy("token_bucket") =>
    \A k \in Keys : store[k].tokens # None =>
      /\ 0 <= store[k].tokens[1]
      /\ store[k].tokens[1] <= cfg.limit * Den

\* C4: sliding window admits at most limit calls whose now values lie in one
\* interval of length windowMs, calls that carry the same now included.
C4_SlidingWindowAtMostLimit ==
  IsStrategy("sliding_window") =>
    \A i \in 1..Len(hist) : Cardinality(InWindowFrom(i)) <= cfg.limit

C6_TokenBucketAtMostLimitPlusRefill ==
  IsStrategy("token_bucket") =>
    \A i \in 1..Len(hist) :
      /\ Cardinality(InWindowFrom(i)) * Den
           <= cfg.limit * Den + SumAdded(AfterInWindow(i))
      /\ Cardinality(InWindowFrom(i)) <= 2 * cfg.limit

\* A token-bucket window that admits more than limit calls: a refill was spent.
C6_Witness ==
  /\ IsStrategy("token_bucket")
  /\ \E i \in 1..Len(hist) : Cardinality(InWindowFrom(i)) > cfg.limit

\* The record at key k once the store has executed the scripts of the first n
\* returned calls, each once.
RECURSIVE StoreAfter(_, _)
StoreAfter(n, k) ==
  IF n = 0 THEN Absent
  ELSE IF hist[n].key # k \/ hist[n].execs = 0 THEN StoreAfter(n - 1, k)
  ELSE RunScript(hist[n].script, StoreAfter(n - 1, k), cfg.limit, cfg.windowSeconds,
                 hist[n].now, clock).rec

\* The envelope one execution of the i-th call's script gives on the record
\* its predecessors left.
ExpectedEnv(i) ==
  EnvelopeFor(hist[i].script,
              RunScript(hist[i].script, StoreAfter(i - 1, hist[i].key), cfg.limit,
                        cfg.windowSeconds, hist[i].now, clock).reply)

C8_NoScriptNeverSurfaced ==
  \A i \in 1..Len(hist) : hist[i].outcome # "NOSCRIPT"

FlushedPair(i) ==
  /\ i > 1
  /\ Replied(i - 1) /\ Replied(i)
  /\ hist[i].noscript
  /\ hist[i].now = hist[i - 1].now /\ hist[i].key = hist[i - 1].key

RECURSIVE Replay(_, _)
Replay(n, k) ==
  IF n = 0 THEN Absent
  ELSE IF hist[n].key # k \/ hist[n].execs = 0 THEN Replay(n - 1, k)
  ELSE IF hist[n].script = "delete" THEN Absent
  ELSE RunScript(hist[n].script, PurgeRec(Replay(n - 1, k), hist[n].now), cfg.limit,
                 cfg.windowSeconds, hist[n].now, hist[n].now).rec

\* The envelope of the i-th call as a function of the operations the store
\* executed on its key before it.
ReplayEnv(i) ==
  Envelope(RunScript(hist[i].script,
                     PurgeRec(Replay(i - 1, hist[i].key), hist[i].now), cfg.limit,
                     cfg.windowSeconds, hist[i].now, hist[i].now).reply)

\* C16: the envelopes returned for a key are a function of the sequence of
\* (now, args) tuples the store executes for it: each is what the run in
\* which every tuple is executed at the instant now it carries returns.
C16_VerdictsFunctionOfTuples ==
  \A i \in 1..Len(hist) : Replied(i) => hist[i].env = ReplayEnv(i)

Deleted(i) == hist[i].script = "delete" /\ hist[i].outcome = "deleted"

\* The calls that follow the i-th operation, had they been made on a key that
\* never existed: the envelope of the j-th.
RECURSIVE FreshFrom(_, _)
FreshFrom(i, j) ==
  IF j <= i THEN Absent
  ELSE IF hist[j].execs = 0 THEN FreshFrom(i, j - 1)
  ELSE IF hist[j].script = "delete" THEN Absent
  ELSE RunScript(hist[j].script, PurgeRec(FreshFrom(i, j - 1), hist[j].now), cfg.limit,
                 cfg.windowSeconds, hist[j].now, hist[j].now).rec

FreshEnv(i, j) ==
  Envelope(RunScript(hist[j].script, PurgeRec(FreshFrom(i, j - 1), hist[j].now),
                     cfg.limit, cfg.windowSeconds, hist[j].now, hist[j].now).reply)

\* C11: after deleteRateLimit(K) has resolved, every checkRateLimit(K, ...)
\* returns the envelope the same calls return on a key that never existed,
\* whatever record K held before the delete.
C11_DeleteGivesFreshBucket ==
  \A i \in 1..Len(hist) : Deleted(i) =>
    \A j \in (i + 1)..Len(hist) : Replied(j) => hist[j].env = FreshEnv(i, j)

\* A delete of a bucket with nothing remaining, followed at the same instant
\* by a call that is allowed and finds the full quota.
C11_Witness ==
  \E i \in 2..(Len(hist) - 1) :
    /\ Deleted(i)
    /\ Replied(i - 1) /\ hist[i - 1].env.remaining = 0
    /\ hist[i + 1].env.remaining = cfg.limit - 1
    /\ Replied(i + 1) /\ hist[i + 1].env.allowed
    /\ hist[i + 1].now = hist[i - 1].now

IsQuota(i) == hist[i].outcome = "quota"

\* No tokens field (any strategy but sliding_window) / no members (sliding_window).
NoQuotaData(i) ==
  IF hist[i].strategy = "sliding_window" THEN hist[i].rec.zset = {}
  ELSE hist[i].rec.tokens = None

\* C15 as stated: getQuotaStatus always returns a pair, and the pair is {0, 0}
\* exactly when the read failed or the record has no tokens field / no members.
C15_ZeroExactlyOnFailureOrNoData ==
  \A i \in 1..Len(hist) : hist[i].script = "getQuotaStatus" =>
    /\ IsQuota(i)
    /\ hist[i].env = QuotaOnError <=> (hist[i].failed \/ NoQuotaData(i))

\* C15 amended: getQuotaStatus always returns a pair; {0, 0} when the read
\* failed (a wrong-type error included), the member count for sliding_window
\* and floor(tokens) otherwise, so that {0, 0} is returned exactly when the
\* read failed, the record has no tokens field / no members, or the tokens
\* field holds a value in [0, 1).
C15_ZeroOnFailureNoDataOrSpentBucket ==
  \A i \in 1..Len(hist) : hist[i].script = "getQuotaStatus" =>
    /\ IsQuota(i)
    /\ hist[i].env.remaining = hist[i].env.total
    /\ hist[i].failed => hist[i].env = [remaining |-> 0, total |-> 0]
    /\ hist[i].env = [remaining |-> 0, total |-> 0] <=>
         \/ hist[i].failed
         \/ NoQuotaData(i)
         \/ /\ hist[i].strategy # "sliding_window"
            /\ 0 <= hist[i].rec.tokens[1] /\ hist[i].rec.tokens[1] < Den

\* getQuotaStatus reads a spent token bucket, and reads a key of another type.
C15_Witness ==
  /\ \E i \in 1..Len(hist) :
       /\ IsQuota(i) /\ ~hist[i].failed
       /\ hist[i].strategy = "token_bucket" /\ hist[i].rec.tokens = Some(0)
       /\ hist[i].env = [remaining |-> 0, total |-> 0]
  /\ \E i \in 1..Len(hist) :
       /\ IsQuota(i) /\ WrongType(hist[i].rec, hist[i].strategy)

\* C12: a call with limit <= 0 fails with a configuration error and leaves
\* the store unchanged.
C12_NonPositiveLimitRejected ==
  cfg.limit <= 0 =>
    /\ \A i \in 1..Len(hist) : hist[i].outcome = "ConfigurationError"
    /\ \A k \in Keys : store[k] = Absent

IsUnknown(i) == hist[i].script = "checkRateLimit"

\* C13: a call with a strategy outside the three fails with the
\* unknown-strategy error, sends nothing to the store and changes no record
\* (every record is the result of the scripts that ran); a call without a
\* strategy runs the token-bucket script and returns its envelope.
C13_UnknownStrategyThrowsDefaultIsTokenBucket ==
  /\ \A i \in 1..Len(hist) :
       IF IsUnknown(i)
         THEN hist[i].outcome = "UnknownStrategy" /\ hist[i].trips = 0 /\ hist[i].execs = 0
         ELSE /\ Replied(i) /\ hist[i].env = ReplayEnv(i)
              /\ cfg.strategy = Undefined => hist[i].script = "tokenBucket"
  /\ \A k \in Keys : store[k] = PurgeRec(Replay(Len(hist), k), clock)
  /\ \A p \in Procs :
       InFlight(p) /\ cfg.strategy = Undefined => proc[p].script = "tokenBucket"

\* A call without a strategy is answered by the token bucket, then a call with
\* an unknown strategy fails while the bucket's record stays as it was.
C13_Witness ==
  /\ cfg.strategy = Undefined
  /\ \E i \in 2..Len(hist) :
       /\ IsUnknown(i)
       /\ Replied(i - 1) /\ hist[i - 1].script = "tokenBucket"
       /\ \E k \in Keys : store[k].tokens # None

IsFixed(i) == hist[i].script = "rateLimit"

\* C17: every reply of fixedWindowRateLimit has current >= 1 and
\* timeWindow > 0, also on a key that exists without a TTL.
C17_CurrentAndWindowPositive ==
  \A i \in 1..Len(hist) : IsFixed(i) /\ Replied(i) =>
    hist[i].env.current >= 1 /\ hist[i].env.timeWindow > 0

\* The operations that ran INCR on key k, in the order the store ran them.
Incrs(k) ==
  {i \in 1..Len(hist) : hist[i].key = k /\ hist[i].execs = 1
                          /\ hist[i].script \in {"rateLimit", "incr"}}

\* The executions of rate-limit.lua on key k that called PEXPIRE.
Arming(k) ==
  {i \in Incrs(k) :
     /\ IsFixed(i)
     /\ \/ ArmsBase(hist[i].env.current, cfg.limit, cfg.continueExceeding)
        \/ ArmsBackoff(hist[i].env.current, cfg.limit, cfg.exponentialBackoff)}

\* The operations that found key k missing and created it.
Creating(k) == {i \in Incrs(k) : hist[i].env.current = 1}

\* The number of INCR calls on key k from the last operation of S on.
IncrsSince(k, S) ==
  Cardinality({i \in Incrs(k) : \A j \in S : j <= i})

NoHelper == \A i \in 1..Len(hist) : hist[i].script # "incr"

\* C18 as stated: for every flag combination the integer at a key that only
\* fixedWindowRateLimit writes equals the number of INCR calls since its TTL
\* was last armed or re-armed.
C18_CountSinceTtlArmed ==
  NoHelper =>
    \A k \in Keys : store[k].count # None =>
      store[k].count[1] = IncrsSince(k, Arming(k))

\* C18 amended: the integer at the key equals the number of INCR calls since
\* the key was created, i.e. since its TTL was first armed; a re-arming by
\* continueExceeding or exponentialBackoff leaves the count as it is, so the
\* count since the last arming is the value only when both flags are off.
C18_CountSinceKeyCreated ==
  \A k \in Keys : store[k].count # None =>
    /\ Creating(k) # {}
    /\ store[k].count[1] = IncrsSince(k, Creating(k))
    /\ NoHelper /\ ~cfg.continueExceeding /\ ~cfg.exponentialBackoff =>
         store[k].count[1] = IncrsSince(k, Arming(k))

\* A key over its max whose TTL was re-armed: the value counts the INCR calls
\* made before the re-arming too.
C18_Witness ==
  /\ NoHelper
  /\ \E k \in Keys :
       /\ store[k].count # None
       /\ store[k].count[1] > cfg.limit
       /\ store[k].count[1] > IncrsSince(k, Arming(k))

\* C14: checkRateLimit and fixedWindowRateLimit return an envelope only from
\* the reply of an execution of the script on the store, and it is that
\* reply's values; a call whose last command the store or the runner failed
\* fails with that error and carries no verdict.
C14_NoInventedVerdict ==
  \A i \in 1..Len(hist) :
    IF Replied(i)
      THEN hist[i].execs = 1 /\ hist[i].env = ExpectedEnv(i)
      ELSE hist[i].outcome \in {"NOSCRIPT", "StoreError"} /\ hist[i].env = NoEnvelope

\* A call whose script ran but whose reply was lost fails with the store's
\* error, and a later call returns the reply of its own execution.
C14_Witness ==
  \E i \in 1..Len(hist) :
    /\ hist[i].outcome = "StoreError" /\ hist[i].execs = 1
    /\ \E j \in (i + 1)..Len(hist) : Replied(j)

\* C19: every envelope checkRateLimit returns has resetAt >= now, the clock
\* value the call passed to the script, under each strategy and whatever the
\* key holds, records written with a later now included.
C19_ResetAtNotBeforeNow ==
  \A i \in 1..Len(hist) : Replied(i) => hist[i].env.resetAt >= hist[i].now

\* A call that carries an earlier now than the call that wrote the record it
\* finds, and an envelope with resetAt in the future.
C19_Witness ==
  \E i \in 2..Len(hist) :
    /\ Replied(i - 1) /\ Replied(i)
    /\ hist[i].now < hist[i - 1].now
    /\ hist[i].env.resetAt > hist[i].now

\* C20: when a call returns resetAt = R and the next operation on the key is a
\* call with now = R, that call sees the full quota: it is allowed and returns
\* remaining = limit - 1.
C20_FullQuotaAtResetAt ==
  \A i \in 2..Len(hist) :
    /\ Replied(i - 1) /\ Replied(i)
    /\ hist[i].key = hist[i - 1].key
    /\ hist[i].now = hist[i - 1].env.resetAt
    => hist[i].env.allowed /\ hist[i].env.remaining = cfg.limit - 1

\* C21: when a call that found no digest for its script (its preload failed)
\* returns a reply, the digest table holds a digest for that script.
C21_FirstCallHealsDigestTable ==
  \A i \in 1..Len(hist) :
    Replied(i) /\ ~hist[i].cached => scriptShas[hist[i].script] # None

IsRunnerCall(i) == hist[i].script \in ScriptNames

\* The commands of a call that found a digest: EVALSHA; after a NOSCRIPT
\* answer SCRIPT LOAD; after the digest it returned, EVALSHA once more.
DigestProtocol(cmds) ==
  /\ Len(cmds) \in 1..3
  /\ cmds[1][1] = "EVALSHA"
  /\ Len(cmds) >= 2 => cmds[1][2] = "NOSCRIPT" /\ cmds[2][1] = "SCRIPT LOAD"
  /\ Len(cmds) = 2 => cmds[2][2] # "digest"
  /\ Len(cmds) = 3 => cmds[2][2] = "digest" /\ cmds[3][1] = "EVALSHA"

FirstEvalshaFails(p) ==
  /\ proc[p].pc = "evalsha"
  /\ proc'[p] # proc[p]
  /\ Len(hist') = Len(hist) + 1
  /\ hist'[Len(hist')].cmds = <<(<<"EVALSHA", "StoreError">>)>>

\* C24: when the first EVALSHA fails with an error other than NOSCRIPT the call
\* ends there: it has sent that one command, the digest table is as it was,
\* and the caller gets that error.
C24_OtherErrorsSurfaceUnchanged ==
  /\ [](\A i \in 1..Len(hist) :
         IsRunnerCall(i) /\ hist[i].cmds[1] = <<"EVALSHA", "StoreError">> =>
           Len(hist[i].cmds) = 1 /\ hist[i].outcome = "StoreError")
  /\ [][\A p \in Procs : FirstEvalshaFails(p) =>
          /\ scriptShas' = scriptShas
          /\ proc'[p] = IdleProc
          /\ hist'[Len(hist')].outcome = "StoreError"]_vars

\* A call that held a digest and whose first EVALSHA failed with a store error.
C24_Witness ==
  \E i \in 1..Len(hist) :
    /\ IsRunnerCall(i) /\ hist[i].cached
    /\ hist[i].cmds = <<(<<"EVALSHA", "StoreError">>)>>
    /\ hist[i].outcome = "StoreError"

\* The names whose entry of the digest table a step replaces.
Replaced == {n \in ScriptNames : scriptShas[n] # None /\ scriptShas'[n] # None}

\* C25: in every interleaving of runner calls, NOSCRIPT recoveries and preload
\* runs, the digest table's entry for a name is the digest of that name's
\* registry source or is absent, the digest a call carries is its script's,
\* and a step that writes an entry already set writes the value it had.
C25_DigestTableConsistent ==
  /\ [](/\ \A n \in ScriptNames : scriptShas[n] \in {None, Some(<<"sha1", n>>)}
        /\ \A p \in Procs : proc[p].pc \in {"evalsha", "retry"} =>
             proc[p].sha = Some(<<"sha1", proc[p].script>>))
  /\ [][\A n \in Replaced : scriptShas'[n] = scriptShas[n]]_vars

\* Two calls have each replaced the entry of their script after NOSCRIPT while
\* a preload run that has written the same entry is still going.
C25_Witness ==
  /\ \A p \in Procs : proc[p].pc = "retry" /\ proc[p].script = "tokenBucket"
  /\ \E i \in 1..Len(loader) :
       /\ loader[i].todo # <<>>
       /\ \E j \in 1..Len(loader[i].tried) : loader[i].tried[j] = "tokenBucket"
  /\ scriptShas["tokenBucket"] = Some(<<"sha1", "tokenBucket">>)

\* C26: every preload run sends SCRIPT LOAD for the four scripts in registry
\* order whether or not a load fails; once a run has ended without a failure
\* the table holds the four digests; a call started while its script had no
\* digest is at its EVAL, whatever the preload runs are doing, and EVAL is
\* the one command it has sent when it returns.
C26_ReloadHook ==
  /\ \A i \in 1..Len(loader) :
       /\ loader[i].tried \o loader[i].todo = ScriptOrder
       /\ loader[i].todo = <<>> /\ ~loader[i].failed =>
            \A n \in ScriptNames : scriptShas[n] # None
  /\ \A p \in Procs : proc[p].sha = None /\ proc[p].pc # "idle" =>
       proc[p].pc = "eval" /\ proc[p].cmds = <<>>
  /\ \A i \in 1..Len(hist) : IsRunnerCall(i) /\ ~hist[i].cached =>
       Len(hist[i].cmds) = 1 /\ hist[i].cmds[1][1] = "EVAL"

\* A preload run went on after a failed load and a call made before the run
\* reached its script got its reply through EVAL.
C26_Witness ==
  /\ \E i \in 1..Len(loader) :
       /\ loader[i].failed
       /\ Len(loader[i].tried) = 1
       /\ Head(loader[i].todo) = "tokenBucket"
  /\ \E i \in 1..Len(hist) :
       /\ Replied(i) /\ ~hist[i].cached /\ hist[i].script = "tokenBucket"
       /\ hist[i].cmds = <<(<<"EVAL", "reply">>)>>

IsStrategyOrFixed(i) == hist[i].script \in ScriptNames

\* The operation that returned in this step.
Last == hist'[Len(hist')]
OpReturns == Len(hist') = Len(hist) + 1

\* The TTL of the record at k runs out in this step.
ExpiresNow(k) == clock' # clock /\ Expired(store[k], clock') /\ store'[k] = Absent

\* C22: a step changes the record at a key only when that record's TTL runs out
\* or when a decision or a deleteRateLimit on that very key runs; a returning
\* getQuotaStatus or key scan leaves the store as it was; a record that is
\* there before a step and gone after it went by TTL expiry or by
\* deleteRateLimit on its key.
C22_Frame ==
  [][/\ \A k \in FrameKeys : store'[k] # store[k] =>
          \/ ExpiresNow(k)
          \/ /\ OpReturns
             /\ Last.key = k
             /\ Last.script \in ScriptNames \cup {"delete"}
             /\ Last.execs = 1
     /\ OpReturns /\ Last.script \in {"getQuotaStatus", "getKeys"} => store' = store
     /\ \A k \in FrameKeys : store[k] # Absent /\ store'[k] = Absent =>
          \/ ExpiresNow(k)
          \/ OpReturns /\ Last.script = "delete" /\ Last.key = k]_vars

\* A decision on k1 created its record and deleteRateLimit removed it again,
\* while the record at k2 stayed.
C22_Witness ==
  /\ Len(hist) = 2
  /\ IsStrategyOrFixed(1) /\ Replied(1) /\ hist[1].key = "k1"
  /\ hist[2].script = "delete" /\ hist[2].key = "k1"
  /\ store["k1"] = Absent /\ store["k2"] # Absent

\* The record the returning decision found at its key, and the one it left.
Found == store[Last.key]
Left == store'[Last.key]
Decides(name) == OpReturns /\ Last.script = name /\ Last.outcome = "reply"

\* The token count, as a numerator over Den, after the refill of a decision
\* that found tokens and last_refill: whole seconds passed times limit/window.
RefilledTokens ==
  IF Found.tokens = None THEN cfg.limit * Den
  ELSE LET seconds == (Last.now - Found.last_refill[1]) \div 1000
           credit == Found.tokens[1] + seconds * ((cfg.limit * Den) \div cfg.windowSeconds)
       IN IF credit < cfg.limit * Den THEN credit ELSE cfg.limit * Den

\* The worked example of the token bucket: limit 10, window 10 s.
TokenBucketWorkedExample ==
  cfg = TokenBucketExample =>
    /\ \A i \in 1..Len(hist) : i <= 10 /\ hist[i].now = 0 => hist[i].env.allowed
    /\ Len(hist) >= 11 /\ hist[10].now = 0 /\ hist[11].now = 500 =>
         ~hist[11].env.allowed /\ hist[11].env.remaining = 0
    /\ Len(hist) = 12 /\ hist[10].now = 0 /\ hist[11].now = 500 /\ hist[12].now = 1500 =>
         hist[12].env.allowed /\ hist[12].env.remaining = 0

\* C27: one token-bucket decision takes the stored pair to tokens = limit on an
\* absent record and to min(limit, tokens + floor((now - last_refill)/1000) *
\* limit/window) otherwise, takes one token when that is at least 1 and allows
\* exactly then, stores now as last_refill, and replies allowed, floor(tokens)
\* and last_refill + window*1000; with limit 10 and window 10 ten calls at 0 are
\* allowed, one at 500 is denied with 0 remaining, one at 1500 is allowed with
\* 0 remaining.
C27_TokenBucketStep ==
  /\ [][Decides("tokenBucket") =>
          LET allowed == RefilledTokens >= Den
              tokens == IF allowed THEN RefilledTokens - Den ELSE RefilledTokens
          IN /\ Left.tokens = <<tokens>>
             /\ Left.last_refill = <<Last.now>>
             /\ Last.env = [allowed |-> allowed, remaining |-> tokens \div Den,
                            resetAt |-> Last.now + cfg.windowSeconds * 1000]]_vars
  /\ []TokenBucketWorkedExample

\* The worked example has run to its end: ten calls at 0, one at 500, one at
\* 1500, the last one allowed.
C27_Witness ==
  /\ cfg = TokenBucketExample
  /\ Len(hist) = 12
  /\ hist[10].now = 0 /\ hist[11].now = 500 /\ hist[12].now = 1500
  /\ ~hist[11].env.allowed /\ hist[12].env.allowed

\* The members a sliding-window decision finds still inside its window.
InsideWindow == {m \in Found.zset : m > Last.now - cfg.windowSeconds * 1000}

\* The worked example of the sliding window: limit 3, window 1 s.
SlidingWindowWorkedExample ==
  cfg = SlidingWindowExample /\ Len(hist) = 5
  /\ hist[1].now = 0 /\ hist[2].now = 200 /\ hist[3].now = 400 /\ hist[4].now = 500
  /\ hist[5].now = 1100 =>
    /\ \A i \in {1, 2, 3, 5} : hist[i].env.allowed
    /\ ~hist[4].env.allowed

\* C29: one sliding-window decision drops the members with score <= now -
\* windowMs, is allowed exactly when fewer than limit members are left, then
\* adds now (and adds nothing when denied), and replies allowed, max(0, limit -
\* members counted after the insertion) and now + windowMs; so a member t is
\* counted by the decisions with t <= now < t + windowMs and by no decision
\* with now >= t + windowMs; with limit 3 and window 1 s calls at 0, 200, 400
\* are allowed, one at 500 is denied, one at 1100 is allowed.
C29_SlidingWindowStep ==
  /\ [][Decides("slidingWindow") =>
          LET allowed == Cardinality(InsideWindow) < cfg.limit
              members == IF allowed THEN InsideWindow \cup {Last.now} ELSE InsideWindow
              over == cfg.limit - (Cardinality(InsideWindow) + (IF allowed THEN 1 ELSE 0))
          IN /\ Left.zset = members
             /\ \A t \in Found.zset :
                  /\ Last.now < t + cfg.windowSeconds * 1000 => t \in members
                  /\ Last.now >= t + cfg.windowSeconds * 1000 => t \notin members
             /\ Last.env = [allowed |-> allowed,
                            remaining |-> IF over > 0 THEN over ELSE 0,
                            resetAt |-> Last.now + cfg.windowSeconds * 1000]]_vars
  /\ []SlidingWindowWorkedExample

\* The worked example has run to its end, and the decision at 1100 has dropped
\* the member 0 and kept 200 and 400.
C29_Witness ==
  /\ cfg = SlidingWindowExample
  /\ Len(hist) = 5
  /\ hist[1].now = 0 /\ hist[2].now = 200 /\ hist[3].now = 400 /\ hist[4].now = 500
  /\ hist[5].now = 1100
  /\ ~hist[4].env.allowed /\ hist[5].env.allowed
  /\ \E k \in Keys : store[k].zset = {200, 400, 1100}

\* Each of the calls i+1..j carries a now less than a second after the call
\* before it.
Polled(i, j) == \A m \in (i + 1)..j : hist[m].now - hist[m - 1].now < 1000

\* C28: a token-bucket decision that finds a record whose last_refill is less
\* than 1000 ms before its now leaves no more tokens than it found and stores
\* its now as last_refill; so once a call is denied, every later call of a run
\* of calls less than a second apart is denied too.
C28_SubSecondCallsNeverRefill ==
  /\ [][Decides("tokenBucket") /\ Found.tokens # None
          /\ Last.now - Found.last_refill[1] < 1000 =>
            /\ Left.tokens[1] <= Found.tokens[1]
            /\ Left.last_refill = <<Last.now>>
            /\ Found.tokens[1] < Den => ~Last.env.allowed]_vars
  /\ [](\A i \in 1..Len(hist), j \in 1..Len(hist) :
          /\ i < j /\ hist[i].script = "tokenBucket"
          /\ ~hist[i].env.allowed /\ Polled(i, j)
          => ~hist[j].env.allowed)

\* A bucket found empty is still denied a second or more later, because it was
\* polled in between.
C28_Witness ==
  \E i \in 1..Len(hist), j \in 1..Len(hist) :
    /\ i < j /\ hist[i].script = "tokenBucket"
    /\ ~hist[i].env.allowed /\ Polled(i, j)
    /\ hist[j].now - hist[i].now >= 1000
    /\ ~hist[j].env.allowed

\* C30: after a sliding-window decision the set holds at most limit members,
\* and none of them, the members the eviction left included, has a score
\* below the decision's now - windowMs.
C30_SlidingWindowRecord ==
  /\ [](\A k \in Keys : Cardinality(store[k].zset) <= cfg.limit)
  /\ [][Decides("slidingWindow") =>
          /\ Cardinality(Left.zset) <= cfg.limit
          /\ \A m \in Left.zset : m >= Last.now - cfg.windowSeconds * 1000
          /\ \A m \in Left.zset \ {Last.now} : m > Last.now - cfg.windowSeconds * 1000]_vars

\* A decision a window or more after the first admission has evicted that
\* member and the set is full again.
C30_Witness ==
  \E i \in 1..Len(hist), k \in Keys :
    /\ hist[i].script = "slidingWindow" /\ hist[i].env.allowed
    /\ hist[1].env.allowed
    /\ hist[i].now >= hist[1].now + cfg.windowSeconds * 1000
    /\ hist[1].now \notin store[k].zset
    /\ Cardinality(store[k].zset) = cfg.limit

\* The admitted sliding-window calls whose now is a member of the set at k.
Counted(k) ==
  {i \in 1..Len(hist) : /\ hist[i].script = "slidingWindow" /\ hist[i].key = k
                        /\ hist[i].env.allowed /\ hist[i].now \in store[k].zset}

\* Those of them that carry the now of an earlier one.
Collisions(k) == {i \in Counted(k) : \E j \in Counted(k) : j < i /\ hist[j].now = hist[i].now}

\* C31: an admitted sliding-window call whose now is already a member leaves
\* the set with the members it found inside the window, and one whose now is
\* new adds one member; so the set holds one member less than the admissions
\* it stands for per collision, and that is the count later decisions use.
C31_SameMillisecondCollision ==
  /\ [][Decides("slidingWindow") /\ Last.env.allowed =>
          /\ Last.now \in Found.zset => Left.zset = InsideWindow
          /\ Last.now \notin Found.zset =>
               Cardinality(Left.zset) = Cardinality(InsideWindow) + 1]_vars
  /\ [](\A k \in Keys :
          Cardinality(store[k].zset) = Cardinality(Counted(k)) - Cardinality(Collisions(k)))
  /\ [][Decides("slidingWindow") =>
          Last.env.allowed = (Cardinality(InsideWindow) < cfg.limit)]_vars

\* Three calls with the same now were all allowed under limit 2 and the set
\* holds one member.
C31_Witness ==
  \E k \in Keys :
    /\ cfg.limit = 2
    /\ Cardinality(Counted(k)) = 3
    /\ Cardinality(Collisions(k)) = 2
    /\ Cardinality(store[k].zset) = 1

\* leakRate = limit / windowSeconds, as a numerator over Den.
RatePerSecond == (cfg.limit * Den) \div cfg.windowSeconds

\* The water, as a numerator over Den, a leaky-bucket decision finds after the
\* leak since last_leak; an absent record holds no water.
WaterAfterLeak ==
  IF Found.water = None THEN 0
  ELSE LET left == Found.water[1]
                     - ((Last.now - Found.last_leak[1]) * RatePerSecond) \div 1000
       IN IF left > 0 THEN left ELSE 0

LeakyAllowed == WaterAfterLeak < cfg.limit * Den
WaterWritten == IF LeakyAllowed THEN WaterAfterLeak + Den ELSE WaterAfterLeak

\* The record a leaky-bucket decision leaves, and the first two parts of its reply.
LeakyBucketStep ==
  /\ Left.water = <<WaterWritten>>
  /\ Left.last_leak = <<Last.now>>
  /\ Last.env.allowed = LeakyAllowed
  /\ Last.env.remaining = (cfg.limit * Den - WaterWritten) \div Den

\* The worked example of the leaky bucket: capacity 5, window 5 s.
LeakyBucketWorkedExample ==
  cfg = LeakyBucketExample =>
    /\ \A i \in 1..Len(hist) : i <= 5 /\ hist[i].now = 0 => hist[i].env.allowed
    /\ Len(hist) >= 6 /\ hist[6].now = 0 => ~hist[6].env.allowed
    /\ Len(hist) = 7 /\ hist[6].now = 0 /\ hist[7].now = 1000 => hist[7].env.allowed

UnevenLeak == [strategy |-> "leaky_bucket", limit |-> 7, windowSeconds |-> 25]

TtlConfigs == Configs \cup {UnevenLeak}

\* The script raises an error after its writes: the store keeps them, and the
\* error, which does not mention NOSCRIPT, is rethrown to the caller.
ScriptFails(p) ==
  /\ proc[p].pc = "evalsha"
  /\ proc[p].sha[1] \in scriptCache
  /\ Ran(p).error
  /\ store' = [store EXCEPT ![proc[p].key] = Ran(p).rec]
  /\ Throw(p, "ScriptError", proc[p].execs + 1)
  /\ UNCHANGED <<cfg, clock, scriptCache, scriptShas, callsLeft, loader>>

InitTtl ==
  /\ cfg \in TtlConfigs
  /\ clock = 0
  /\ store = [k \in Keys |-> Absent]
  /\ scriptCache = {Sha1(n) : n \in ScriptNames}
  /\ scriptShas = [n \in ScriptNames |-> Some(Sha1(n))]
  /\ proc = [p \in Procs |-> IdleProc]
  /\ hist = <<>>
  /\ callsLeft = MaxTtlCalls
  /\ loader = <<>>

NextTtl ==
  \/ \E d \in Steps : Tick(d)
  \/ \E p \in Procs, k \in Keys : CallStart(p, k)
  \/ \E p \in Procs : EvalshaOk(p)
  \/ \E p \in Procs : ScriptFails(p)

SpecTtl == InitTtl /\ [][NextTtl]_vars

\* The lifetime the claim gives the records of each strategy, in seconds.
ClaimedTtl ==
  CASE cfg.strategy = "token_bucket" -> 2 * cfg.windowSeconds
    [] cfg.strategy = "sliding_window" -> Ceil(cfg.windowSeconds * SecondMs, SecondMs)
    [] cfg.strategy = "leaky_bucket" -> cfg.windowSeconds

\* The store runs the script of process p in this step.
ScriptRuns(p) == proc[p].pc = "evalsha" /\ proc'[p].pc = "idle"

\* The latest run of a script on key k, as the log has it.
RunsOn(k) == {i \in DOMAIN hist : hist[i].key = k /\ hist[i].execs > 0}
LastRunOn(k) == hist[CHOOSE i \in RunsOn(k) : \A j \in RunsOn(k) : j <= i]

\* C33: every run of a token-bucket, sliding-window or leaky-bucket script,
\* whatever its verdict, leaves the record of its key with the strategy's
\* lifetime counted from that run (2 * windowSeconds, ceil(windowMs / 1000)
\* and windowSeconds seconds), so a record is there exactly until that long
\* has passed since the latest run on its key.
C33_EveryDecisionRearmsTtl ==
  /\ [][\A p \in Procs :
          ScriptRuns(p) =>
            /\ store'[proc[p].key].kind # "none"
            /\ store'[proc[p].key].expireAt = Some(clock + ClaimedTtl * SecondMs)]_vars
  /\ [](\A k \in Keys :
          RunsOn(k) # {} =>
            IF clock < LastRunOn(k).now + ClaimedTtl * SecondMs
              THEN store[k].expireAt = Some(LastRunOn(k).now + ClaimedTtl * SecondMs)
              ELSE store[k] = Absent)

\* The record at key k after the first n returned calls in a store whose
\* records never expire: every script runs on what the run before it left.
RECURSIVE Unexpired(_, _)
Unexpired(n, k) ==
  IF n = 0 THEN Absent
  ELSE IF hist[n].key # k THEN Unexpired(n - 1, k)
  ELSE RunScript(hist[n].script, Unexpired(n - 1, k), cfg.limit, cfg.windowSeconds,
                 hist[n].now, hist[n].now).rec

\* The envelope the i-th call gets from the store whose records never expire.
UnexpiredEnv(i) ==
  Envelope(RunScript(hist[i].script, Unexpired(i - 1, hist[i].key), cfg.limit,
                     cfg.windowSeconds, hist[i].now, hist[i].now).reply)

\* C34: with the store's clock equal to the caller's and now never going
\* back, every decision returns the verdict and the remaining count it would
\* return from a store whose records never expire.
C34_ExpiryIsTransparent ==
  \A i \in DOMAIN hist :
    /\ hist[i].env.allowed = UnexpiredEnv(i).allowed
    /\ hist[i].env.remaining = UnexpiredEnv(i).remaining

\* ------------------------------------------- the fixed-window counter alone
\* The worked example of the fixed window: timeWindow 60000 ms, max 2.
FixedWindowExample ==
  [strategy |-> "fixed_window", limit |-> 2, windowSeconds |-> 1, timeWindow |-> 60000,
   continueExceeding |-> FALSE, exponentialBackoff |-> FALSE]

WindowConfigs == FixedConfigs \cup {FixedWindowExample}

\* Keys that only fixedWindowRateLimit touches.
InitWindow ==
  /\ cfg \in WindowConfigs
  /\ clock = 0
  /\ store = [k \in Keys |-> Absent]
  /\ scriptCache = {Sha1(n) : n \in ScriptNames}
  /\ scriptShas = [n \in ScriptNames |-> Some(Sha1(n))]
  /\ proc = [p \in Procs |-> IdleProc]
  /\ hist = <<>>
  /\ callsLeft = MaxWindowCalls
  /\ loader = <<>>

NextWindow ==
  \/ \E d \in Steps : Tick(d)
  \/ \E p \in Procs, k \in Keys : FixedWindowStart(p, k)
  \/ \E p \in Procs : EvalshaOk(p)

SpecWindow == InitWindow /\ [][NextWindow]_vars

\* The calls of the lifetime the i-th call falls in: those on its key from the
\* latest call that returned current = 1 up to the i-th.
InLifetime(i) ==
  {m \in 1..i :
     /\ hist[m].key = hist[i].key
     /\ \E j \in 1..m : /\ hist[j].key = hist[i].key
                        /\ hist[j].env.current = 1
                        /\ \A n \in (j + 1)..i :
                             hist[n].key = hist[i].key => hist[n].env.current # 1}

PlainWindow == ~cfg.continueExceeding /\ ~cfg.exponentialBackoff

\* C35: with both flags false the k-th call of a lifetime returns current = k;
\* the call that returns 1 arms the TTL to timeWindow and returns timeWindow;
\* every later call leaves the TTL as it found it and returns what is left of
\* it, at most timeWindow; three calls at one instant under timeWindow 60000,
\* max 2 return 1, 2, 3, the third with the whole 60000 still left.
C35_PlainFixedWindow ==
  /\ [](PlainWindow =>
          \A i \in DOMAIN hist : hist[i].env.current = Cardinality(InLifetime(i)))
  /\ [][Decides("rateLimit") /\ PlainWindow =>
          IF Last.env.current = 1
            THEN /\ Left.expireAt = Some(clock + cfg.timeWindow)
                 /\ Last.env.timeWindow = cfg.timeWindow
            ELSE /\ Found.expireAt # None
                 /\ Left.expireAt = Found.expireAt
                 /\ Last.env.timeWindow = Found.expireAt[1] - clock
                 /\ Last.env.timeWindow > 0
                 /\ Last.env.timeWindow <= cfg.timeWindow]_vars
  /\ [](cfg = FixedWindowExample /\ Len(hist) >= 3 /\ hist[3].now = 0 =>
          /\ \A i \in 1..3 : hist[i].env.current = i
          /\ hist[3].env.timeWindow = 60000)

\* The third call of the example, made 250 ms after the first two, is over max
\* and gets the 59750 ms left of the lifetime the first call armed.
C35_Witness ==
  /\ cfg = FixedWindowExample
  /\ Len(hist) = 3
  /\ hist[2].now = 0
  /\ hist[3].now = 250
  /\ hist[3].env = [current |-> 3, timeWindow |-> 59750]
  /\ store["k1"].expireAt = Some(60000)

\* The base windows of the backoff ladder, in milliseconds.
BackoffBases == TimeWindows \cup {1, 60000}

BackoffOnly == cfg.exponentialBackoff /\ ~cfg.continueExceeding

\* The ladder of backoff windows of one base: no step is above 2^53 - 1 or
\* below the step before it, and every step is twice the step before it or,
\* where that is above 2^53 - 1, is 2^53 - 1; the ladder reaches 2^53 - 1.
BackoffLadder ==
  \A base \in BackoffBases, max \in Limits :
    /\ BackoffMs(base, max + 1, max) = [hi |-> 0, lo |-> base]
    /\ \A k \in 1..MaxBackoffSteps :
         LET this == BackoffMs(base, max + k, max)
             next == BackoffMs(base, max + k + 1, max)
         IN /\ BigGeq(MaxSafeInteger, next)
            /\ BigGeq(next, this)
            /\ next = IF BigGeq(MaxSafeInteger, BigTwice(this)) THEN BigTwice(this)
                      ELSE MaxSafeInteger
    /\ BackoffMs(base, max + MaxBackoffSteps, max) = MaxSafeInteger

\* C36: with exponentialBackoff true and continueExceeding false the call
\* that returns current = max + k, k >= 1, arms the TTL to
\* min(timeWindow * 2^(k - 1), 2^53 - 1) and returns it; that window never
\* shrinks from one k to the next, doubles until it reaches 2^53 - 1 and never
\* passes it; a call with 1 < current <= max leaves the TTL as it found it and
\* returns what is left of it; max 1 and timeWindow 1000 give (1, 1000),
\* (2, 1000), (3, 2000), (4, 4000) for four calls at one instant.
C36_ExponentialBackoff ==
  /\ []BackoffLadder
  /\ [][Decides("rateLimit") /\ BackoffOnly =>
          LET k == Last.env.current - cfg.limit
          IN /\ k >= 1 =>
                  /\ Last.env.timeWindow = cfg.timeWindow * Pow2(k - 1)
                  /\ Left.expireAt = Some(clock + cfg.timeWindow * Pow2(k - 1))
             /\ 1 < Last.env.current /\ k < 1 =>
                  /\ Left.expireAt = Found.expireAt
                  /\ Last.env.timeWindow = Found.expireAt[1] - clock]_vars
  /\ [](BackoffOnly /\ cfg.limit = 1 /\ cfg.timeWindow = 1000 /\ Len(hist) = 4
          /\ hist[4].now = 0 =>
          /\ hist[1].env = [current |-> 1, timeWindow |-> 1000]
          /\ hist[2].env = [current |-> 2, timeWindow |-> 1000]
          /\ hist[3].env = [current |-> 3, timeWindow |-> 2000]
          /\ hist[4].env = [current |-> 4, timeWindow |-> 4000])

\* The fourth call of the example has returned (4, 4000) and the key lives
\* 4000 ms from it.
C36_Witness ==
  /\ BackoffOnly /\ cfg.limit = 1 /\ cfg.timeWindow = 1000
  /\ Len(hist) = 4
  /\ hist[4].now = 0
  /\ hist[4].env = [current |-> 4, timeWindow |-> 4000]
  /\ store["k1"].expireAt = Some(4000)

\* C37: with continueExceeding true every call that returns current > max
\* arms the TTL to timeWindow and returns timeWindow, with exponentialBackoff
\* true or false; a call that comes less than timeWindow after a call that
\* returned current > max finds the key and returns the next count, never 1.
C37_ContinueExceeding ==
  /\ [][Decides("rateLimit") /\ cfg.continueExceeding /\ Last.env.current > cfg.limit =>
          /\ Left.expireAt = Some(clock + cfg.timeWindow)
          /\ Last.env.timeWindow = cfg.timeWindow]_vars
  /\ [](cfg.continueExceeding =>
          \A i \in 2..Len(hist) :
            /\ hist[i - 1].env.current > cfg.limit
            /\ hist[i].now - hist[i - 1].now < cfg.timeWindow
            => /\ hist[i].env.current = hist[i - 1].env.current + 1
               /\ hist[i].env.timeWindow = cfg.timeWindow)

\* Max 1 and timeWindow 500: calls every 250 ms keep the key past three
\* windows of its first arming, with either setting of exponentialBackoff.
C37_Witness ==
  /\ cfg.continueExceeding /\ cfg.limit = 1 /\ cfg.timeWindow = 500
  /\ Len(hist) = 4
  /\ \A i \in 1..4 : hist[i].now = (i - 1) * 250 /\ hist[i].env.current = i
  /\ cfg.exponentialBackoff
  /\ store["k1"].expireAt = Some(1250)

\* C38: a key that only the fixed-window script touches never holds a counter
\* without a TTL: every call leaves the key there with its expiry ahead of the
\* store's clock, the creating call included, and the counter is gone as soon
\* as the clock reaches that expiry.
C38_NoImmortalCounter ==
  /\ [](\A k \in Keys :
          store[k].kind # "none" =>
            /\ store[k].count # None
            /\ store[k].expireAt # None
            /\ store[k].expireAt[1] > clock)
  /\ [][Decides("rateLimit") =>
          /\ Left.count = Some(Last.env.current)
          /\ Left.expireAt # None
          /\ Left.expireAt[1] > clock]_vars
  /\ [][\A k \in Keys :
          store[k].kind # "none" /\ clock' >= store[k].expireAt[1] =>
            store'[k] = Absent]_vars

\* A counter armed by its creating call is removed when its window has passed
\* without a call.
C38_Witness ==
  /\ Len(hist) = 1
  /\ hist[1].env.current = 1
  /\ clock >= hist[1].now + cfg.timeWindow
  /\ store["k1"] = Absent

\* The i-th operation is a quota read the store answered.
QuotaRead(i) == IsQuota(i) /\ ~hist[i].failed

\* The i-th operation is a quota read that follows a token-bucket decision on
\* its key and finds the record that decision wrote.
ReadsDecision(i) ==
  /\ QuotaRead(i)
  /\ i > 1
  /\ hist[i].strategy = "token_bucket"
  /\ hist[i - 1].script = "tokenBucket"
  /\ hist[i - 1].key = hist[i].key
  /\ hist[i].rec.last_refill = Some(hist[i - 1].now)

\* C39: a quota read the store answers returns, for sliding_window, the number
\* of members of the set as remaining and as total, members older than the
\* window included, and for every other strategy the floor of the hash field
\* tokens, 0 where the record has no such field; so the read that follows a
\* token-bucket decision returns that decision's remaining, and the read of a
\* leaky-bucket record, which has no tokens field, returns 0.
C39_QuotaValues ==
  \A i \in DOMAIN hist : QuotaRead(i) =>
    /\ hist[i].env.total = hist[i].env.remaining
    /\ hist[i].strategy = "sliding_window" =>
         hist[i].env.remaining = Cardinality(hist[i].rec.zset)
    /\ hist[i].strategy # "sliding_window" =>
         /\ hist[i].rec.tokens = None => hist[i].env.remaining = 0
         /\ hist[i].rec.tokens # None =>
              /\ hist[i].env.remaining * Den <= hist[i].rec.tokens[1]
              /\ hist[i].rec.tokens[1] < (hist[i].env.remaining + 1) * Den
         /\ hist[i].rec.water # None => hist[i].env.remaining = 0
    /\ ReadsDecision(i) => hist[i].env.remaining = hist[i - 1].env.remaining

\* A token-bucket decision under limit 2 returned remaining 1 and the read
\* after it returns 1 as well.
C39_Witness ==
  /\ Len(hist) >= 2
  /\ ReadsDecision(2)
  /\ hist[1].env.remaining = 1
  /\ hist[2].env = [remaining |-> 1, total |-> 1]

\* ------------------------------------------------------------ the key scan
\* A cursor travels as a decimal string, kept here as its digits.
RECURSIVE Number(_)
Number(digits) ==
  IF digits = <<>> THEN 0
  ELSE 10 * Number(SubSeq(digits, 1, Len(digits) - 1)) + digits[Len(digits)]

RECURSIVE CursorString(_)
CursorString(n) == IF n < 10 THEN <<n>> ELSE Append(CursorString(n \div 10), n % 10)

\* The cursor the store hands out after cursor c while its iteration is not
\* over: 12 after 0, 3 after 12, 2 after 3.
OpenCursor(c) == (c * 7 + 12) % 31

\* The keys one SCAN step may return: any one key that is there and matches.
ScanBatches(pattern) ==
  {<<>>} \cup {<<k>> : k \in {j \in DOMAIN store : store[j] # Absent /\ Matches(pattern, j)}}

\* let cursor = 0, keys = []
ScanProc(pattern) ==
  [pc |-> "scan", script |-> "getKeys", key |-> pattern, now |-> 0, sha |-> None,
   execs |-> 0, trips |-> 0, noscript |-> FALSE, cmds |-> <<>>, cursor |-> 0,
   keys |-> <<>>]

\* The store's replies to SCAN: the next cursor with some keys, or an error.
ScanReply(next, batch) == [error |-> FALSE, cursor |-> CursorString(next), keys |-> batch]
ScanError == [error |-> TRUE, cursor |-> <<>>, keys |-> <<>>]

\* SCAN cursor MATCH pattern COUNT 100, with the store's reply.
ScanCommand(c, reply) ==
  [command |-> "SCAN", cursor |-> CursorString(c.cursor), match |-> c.key, count |-> 100,
   reply |-> reply]

\* getKeys(pattern) is called.
GetKeysStart(p, pattern) ==
  /\ proc[p].pc = "idle"
  /\ callsLeft > 0
  /\ callsLeft' = callsLeft - 1
  /\ proc' = [proc EXCEPT ![p] = ScanProc(pattern)]
  /\ UNCHANGED <<cfg, clock, store, scriptCache, scriptShas, hist, loader>>

\* A loop that stops at the first step without keys.
ScanEndsOnEmpty(cursor, batch) == cursor = 0 \/ batch = <<>>

\* while (cursor !== 0)
ScanEnds(cursor, batch) == cursor = 0

\* One turn of the loop: the store answers SCAN with its next cursor and some
\* keys; the loop ends when that cursor is 0 and goes on from it otherwise.
\* The store's iteration is over after MaxScanSteps steps at the latest.
ScanOk(p) ==
  /\ proc[p].pc = "scan"
  /\ \E next \in {0, OpenCursor(proc[p].cursor)}, batch \in ScanBatches(proc[p].key) :
       /\ next # 0 => proc[p].trips + 1 < MaxScanSteps
       /\ LET reply == ScanReply(next, batch)
              cursor == Number(reply.cursor)
              keys == proc[p].keys \o reply.keys
              cmds == Append(proc[p].cmds, ScanCommand(proc[p], reply))
          IN IF ScanEnds(cursor, batch)
               THEN /\ hist' = Append(hist, [OpReturned("getKeys", proc[p].key, "keys",
                                                        [keys |-> keys], 0,
                                                        proc[p].trips + 1)
                                               EXCEPT !.cmds = cmds])
                    /\ proc' = [proc EXCEPT ![p] = IdleProc]
               ELSE /\ hist' = hist
                    /\ proc' = [proc EXCEPT ![p].cursor = cursor, ![p].keys = keys,
                                            ![p].cmds = cmds, ![p].trips = @ + 1]
  /\ UNCHANGED <<cfg, clock, store, scriptCache, scriptShas, callsLeft, loader>>

\* A SCAN is rejected: the keys gathered so far are dropped with the call.
ScanThrows(p) ==
  /\ proc[p].pc = "scan"
  /\ hist' = Append(hist, [OpReturned("getKeys", proc[p].key, "StoreError",
                                      [keys |-> <<>>], 0, proc[p].trips + 1)
                             EXCEPT !.cmds = Append(proc[p].cmds,
                                                    ScanCommand(proc[p], ScanError))])
  /\ proc' = [proc EXCEPT ![p] = IdleProc]
  /\ UNCHANGED <<cfg, clock, store, scriptCache, scriptShas, callsLeft, loader>>

\* The process that scans, one scan after the other.
ScanCaller == "r1"

\* A store in which each key is absent or holds the record of a decision.
InitScan ==
  /\ cfg \in PreloadConfigs
  /\ clock = 0
  /\ store \in [FrameKeys -> {Absent, RunScript(ScriptOfConfig(cfg), Absent, cfg.limit,
                                                cfg.windowSeconds, 0, 0).rec}]
  /\ scriptCache = {Sha1(n) : n \in ScriptNames}
  /\ scriptShas = [n \in ScriptNames |-> Some(Sha1(n))]
  /\ proc = [p \in Procs |-> IdleProc]
  /\ hist = <<>>
  /\ callsLeft = MaxScanCalls
  /\ loader = <<>>

NextScan ==
  \/ \E pattern \in Patterns : GetKeysStart(ScanCaller, pattern)
  \/ \E p \in Procs : ScanOk(p)
  \/ \E p \in Procs : ScanThrows(p)

\* The store answers every SCAN it is sent.
SpecScan ==
  InitScan /\ [][NextScan]_vars /\ \A p \in Procs : WF_vars(ScanOk(p) \/ ScanThrows(p))

\* The keys of the first n replies, in the order the store sent them.
RECURSIVE Gathered(_, _)
Gathered(cmds, n) == IF n = 0 THEN <<>> ELSE Gathered(cmds, n - 1) \o cmds[n].reply.keys

\* The SCAN commands of one call follow the loop: the first carries cursor 0,
\* each carries the pattern and COUNT 100, each but the first carries the
\* cursor of the reply before it, and no reply but the last is an error or
\* carries cursor 0.
ScanProtocol(pattern, cmds) ==
  /\ \A j \in DOMAIN cmds :
       /\ cmds[j].command = "SCAN"
       /\ cmds[j].match = pattern
       /\ cmds[j].count = 100
       /\ cmds[j].cursor = IF j = 1 THEN <<0>> ELSE cmds[j - 1].reply.cursor
  /\ \A j \in 1..(Len(cmds) - 1) : ~cmds[j].reply.error /\ cmds[j].reply.cursor # <<0>>

\* C40: a key scan sends at least one SCAN, the first with cursor 0, all with
\* COUNT 100, each with the cursor the step before returned; it returns
\* exactly when a step returns cursor 0, with the keys of all its steps in the
\* order received; a step the store rejects fails the scan; a scan whose
\* store comes to cursor 0 returns.
C40_KeyScan ==
  /\ [](\A i \in DOMAIN hist : hist[i].script = "getKeys" =>
          LET cmds == hist[i].cmds
              last == cmds[Len(cmds)].reply
          IN /\ Len(cmds) >= 1
             /\ ScanProtocol(hist[i].key, cmds)
             /\ hist[i].outcome = "keys" =>
                  /\ ~last.error
                  /\ last.cursor = <<0>>
                  /\ hist[i].env.keys = Gathered(cmds, Len(cmds))
             /\ hist[i].outcome # "keys" =>
                  /\ last.error
                  /\ hist[i].outcome = "StoreError"
                  /\ hist[i].env.keys = <<>>)
  /\ [](\A p \in Procs : proc[p].pc = "scan" =>
          /\ ScanProtocol(proc[p].key, proc[p].cmds)
          /\ proc[p].cmds # <<>> =>
               /\ ~proc[p].cmds[Len(proc[p].cmds)].reply.error
               /\ proc[p].cmds[Len(proc[p].cmds)].reply.cursor # <<0>>
               /\ CursorString(proc[p].cursor) = proc[p].cmds[Len(proc[p].cmds)].reply.cursor
          /\ proc[p].keys = Gathered(proc[p].cmds, Len(proc[p].cmds)))
  /\ \A p \in Procs : (proc[p].pc = "scan") ~> (proc[p].pc = "idle")

\* A scan of three steps, sent with cursors 0, 12 and 3, has returned the keys
\* of its first and third step in that order.
C40_Witness ==
  /\ Len(hist) = 1
  /\ hist[1].outcome = "keys"
  /\ Len(hist[1].cmds) = 3
  /\ hist[1].cmds[2].cursor = <<1, 2>>
  /\ hist[1].cmds[3].cursor = <<3>>
  /\ hist[1].cmds[1].reply.keys = <<"k2">>
  /\ hist[1].cmds[2].reply.keys = <<>>
  /\ hist[1].cmds[3].reply.keys = <<"k1">>
  /\ hist[1].env.keys = <<"k2", "k1">>

====
